---- MODULE Spec2Model ----
(***************************************************************************)
(* Tuesday Tips slide generator (src/app.py, src/generate_infographic.py). *)
(* Strings are sequences of one-character strings, so that strip, the      *)
(* token regex and splitlines are computed character by character.         *)
(***************************************************************************)
EXTENDS Integers, Sequences, FiniteSets, TLC

(* ---------------------------------------------------------------------- *)
(* Bounds of the model                                                    *)
(* ---------------------------------------------------------------------- *)
\* longest pasted text, in lines
MaxLines == 3

\* longest text pasted into the Streamlit form, in lines
MaxPasteLines == 2

\* number of document IDs the Drive API may hand out
MaxDocs == 2

\* most slides of a presentation
MaxSlides == 2

(* ---------------------------------------------------------------------- *)
(* Python string primitives                                               *)
(* ---------------------------------------------------------------------- *)
\* the whitespace characters of the model (str.strip, regex \s)
WS == {" ", "\t", "\n"}

NL == "\n"

Max(S) == CHOOSE x \in S : \A y \in S : y <= x

\* number of consecutive characters of s, from position i on, that are in C
RECURSIVE RunIn(_, _, _)
RunIn(s, i, C) ==
    IF i >= 1 /\ i <= Len(s) /\ s[i] \in C THEN 1 + RunIn(s, i + 1, C) ELSE 0

\* number of consecutive characters of s, from position i on, that are not in C
RECURSIVE RunNotIn(_, _, _)
RunNotIn(s, i, C) ==
    IF i >= 1 /\ i <= Len(s) /\ s[i] \notin C THEN 1 + RunNotIn(s, i + 1, C) ELSE 0

\* number of consecutive characters of s, from position i backwards, in C
RECURSIVE RunBack(_, _, _)
RunBack(s, i, C) ==
    IF i >= 1 /\ i <= Len(s) /\ s[i] \in C THEN 1 + RunBack(s, i - 1, C) ELSE 0

\* str.strip()
strip(s) ==
    LET a == RunIn(s, 1, WS)
        b == RunBack(s, Len(s), WS)
    IN  IF a = Len(s) THEN <<>> ELSE SubSeq(s, a + 1, Len(s) - b)

\* str.splitlines(), for the line boundary "\n"
RECURSIVE splitlines(_)
splitlines(t) ==
    IF t = <<>> THEN <<>>
    ELSE LET n == RunNotIn(t, 1, {NL})
         IN  IF n = Len(t) THEN <<t>>
             ELSE <<SubSeq(t, 1, n)>> \o splitlines(SubSeq(t, n + 2, Len(t)))

(* ---------------------------------------------------------------------- *)
(* Placeholder catalog                                                    *)
(* ---------------------------------------------------------------------- *)
Title == <<"T", "i", "t", "l", "e">>

Lesson1Title == <<"L", "e", "s", "s", "o", "n", " ", "1", " ", "T", "i", "t", "l", "e">>

Braced(inner) == <<"{", "{">> \o inner \o <<"}", "}">>

\* the catalog, cut down to two of its entries: one plain name and one name
\* with interior spaces
TEMPLATE_PLACEHOLDERS == << Braced(Title), Braced(Lesson1Title) >>

\* variant: any normalized token counts as a catalog key
InCatalogAnyKey(key) == TRUE

InCatalog(key) == \E i \in 1..Len(TEMPLATE_PLACEHOLDERS) : TEMPLATE_PLACEHOLDERS[i] = key

(* ---------------------------------------------------------------------- *)
(* dict: insertion-ordered sequence of <<key, value>> entries             *)
(* ---------------------------------------------------------------------- *)
DictHas(d, k) == \E i \in 1..Len(d) : d[i][1] = k

DictGet(d, k) == d[CHOOSE i \in 1..Len(d) : d[i][1] = k][2]

\* variant: dict.setdefault, the first value of a key stays
DictSetDefault(d, k, v) == IF DictHas(d, k) THEN d ELSE Append(d, <<k, v>>)

\* d[k] = v : an existing key keeps its position, a new key is appended
DictSet(d, k, v) ==
    IF DictHas(d, k)
    THEN [i \in 1..Len(d) |-> IF d[i][1] = k THEN <<k, v>> ELSE d[i]]
    ELSE Append(d, <<k, v>>)

DictKeys(d) == {d[i][1] : i \in 1..Len(d)}

(* ---------------------------------------------------------------------- *)
(* parse_user_content                                                     *)
(* ---------------------------------------------------------------------- *)
NoMatch == [matched |-> FALSE]

\* pattern.match(s) for (\{{1,}[^}]+\}{1,})\s*(.*) : anchored at the start;
\* \{{1,} is greedy and gives braces back until [^}]+ finds a character;
\* [^}]+ runs up to the first closing brace; \}{1,} takes the whole run.
pattern_match(s) ==
    LET o == RunIn(s, 1, {"{"})
        Fits(k) == /\ RunNotIn(s, k + 1, {"}"}) >= 1
                   /\ RunIn(s, k + 1 + RunNotIn(s, k + 1, {"}"}), {"}"}) >= 1
        Cand == {k \in 1..o : Fits(k)}
    IN  IF Cand = {} THEN NoMatch
        ELSE LET k == Max(Cand)
                 n == RunNotIn(s, k + 1, {"}"})
                 c == RunIn(s, k + n + 1, {"}"})
                 q == k + n + c
                 w == RunIn(s, q + 1, WS)
             IN  [matched |-> TRUE,
                  raw_key |-> SubSeq(s, 1, q),
                  val     |-> SubSeq(s, q + w + 1, Len(s))]

\* re.sub(r'^\{+', '', raw_key)
StripOpen(raw_key) == SubSeq(raw_key, RunIn(raw_key, 1, {"{"}) + 1, Len(raw_key))

\* re.sub(r'\}+$', '', inner)
StripClose(inner) == SubSeq(inner, 1, Len(inner) - RunBack(inner, Len(inner), {"}"}))

\* variant: the token is taken to have exactly two braces on each side
NormalizeKeyTwoBraces(raw_key) == Braced(strip(SubSeq(raw_key, 3, Len(raw_key) - 2)))

\* the key a raw token is normalized to
NormalizeKey(raw_key) == Braced(strip(StripClose(StripOpen(raw_key))))

\* variant: the fallback passes over lines that start with a token
RECURSIVE NextValSkipTokens(_, _)
NextValSkipTokens(lines, i) ==
    IF i + 1 > Len(lines) THEN <<>>
    ELSE IF strip(lines[i + 1]) # <<>> /\ ~pattern_match(strip(lines[i + 1])).matched
         THEN strip(lines[i + 1])
         ELSE NextValSkipTokens(lines, i + 1)

\* variant: the line right after line i, blank or not
NextValAdjacent(lines, i) ==
    IF i + 1 > Len(lines) THEN <<>> ELSE strip(lines[i + 1])

\* the first non-blank line after line i, stripped; "" when there is none
RECURSIVE NextVal(_, _)
NextVal(lines, i) ==
    IF i + 1 > Len(lines) THEN <<>>
    ELSE IF strip(lines[i + 1]) # <<>> THEN strip(lines[i + 1])
    ELSE NextVal(lines, i + 1)

\* variant: the line is matched as pasted, without line.strip()
ParseLineUnstripped(lines, i, mapping) ==
    LET m == pattern_match(lines[i])
    IN  IF ~m.matched THEN mapping
        ELSE LET key == NormalizeKey(m.raw_key)
             IN  IF ~InCatalog(key) THEN mapping
                 ELSE IF strip(m.val) # <<>>
                      THEN DictSet(mapping, key, strip(m.val))
                      ELSE DictSet(mapping, key, NextVal(lines, i))

\* variant: a key whose value comes out empty is not assigned
ParseLineSkipEmpty(lines, i, mapping) ==
    LET m == pattern_match(strip(lines[i]))
    IN  IF ~m.matched THEN mapping
        ELSE LET key == NormalizeKey(m.raw_key)
             IN  IF ~InCatalog(key) THEN mapping
                 ELSE IF strip(m.val) # <<>>
                      THEN DictSet(mapping, key, strip(m.val))
                      ELSE IF NextVal(lines, i) # <<>>
                           THEN DictSet(mapping, key, NextVal(lines, i))
                           ELSE mapping

\* one iteration of the loop over text.splitlines(): line i (1-based)
ParseLine(lines, i, mapping) ==
    LET m == pattern_match(strip(lines[i]))
    IN  IF ~m.matched THEN mapping
        ELSE LET key == NormalizeKey(m.raw_key)
             IN  IF ~InCatalog(key) THEN mapping
                 ELSE IF strip(m.val) # <<>>
                      THEN DictSet(mapping, key, strip(m.val))
                      ELSE DictSet(mapping, key, NextVal(lines, i))

\* the mapping after the first n lines
RECURSIVE ParseUpTo(_, _)
ParseUpTo(lines, n) ==
    IF n = 0 THEN <<>> ELSE ParseLine(lines, n, ParseUpTo(lines, n - 1))

\* variant: a key with an empty value is reported missing too
MissingOrEmpty(mapping) ==
    LET Absent(ph) == ~DictHas(mapping, ph) \/ DictGet(mapping, ph) = <<>>
    IN  SelectSeq(TEMPLATE_PLACEHOLDERS, Absent)

\* missing = [ph for ph in TEMPLATE_PLACEHOLDERS if ph not in mapping]
Missing(mapping) ==
    LET Absent(ph) == ~DictHas(mapping, ph)
    IN  SelectSeq(TEMPLATE_PLACEHOLDERS, Absent)

\* parse_user_content(text) = (mapping, missing)
parse_user_content(t) ==
    LET mapping == ParseUpTo(splitlines(t), Len(splitlines(t)))
    IN  <<mapping, Missing(mapping)>>

(* ---------------------------------------------------------------------- *)
(* Pasted texts of the model                                              *)
(* ---------------------------------------------------------------------- *)
ValA == <<"a">>

ValBC == <<"b", " ", "c">>

LineChoices ==
    { <<>>,                                             \* empty line
      <<" ", "\t">>,                                    \* blank line
      <<"n", "o", "t", "e">>,                           \* prose
      Braced(Title) \o <<" ">> \o ValA,                 \* {{Title}} a
      Braced(Title) \o <<" ">> \o ValBC,                \* {{Title}} b c
      Braced(Title),                                    \* {{Title}}
      Braced(Lesson1Title) \o <<" ">> \o ValBC,         \* {{Lesson 1 Title}} b c
      Braced(Lesson1Title),                             \* {{Lesson 1 Title}}
      <<" ", "{", " ">> \o Title \o <<" ", "}", "}", "}", "\t">> \o ValA \o <<" ">>,
                                                        \*  { Title }}}<tab>a
      <<"{", "{", "t", "i", "t", "l", "e", "}", "}", " ">> \o ValA,
                                                        \* {{title}} a
      <<"{", " ", "{">> \o Title \o <<"}", "}", " ">> \o ValA
                                                        \* { {Title}} a
    }

RECURSIVE JoinLines(_)
JoinLines(ls) ==
    IF ls = <<>> THEN <<>>
    ELSE IF Len(ls) = 1 THEN ls[1]
    ELSE ls[1] \o <<NL>> \o JoinLines(Tail(ls))

LineSeqs == UNION {[1..n -> LineChoices] : n \in 0..MaxLines}

Texts == {JoinLines(ls) : ls \in LineSeqs}

\* the texts pasted into the form of the Streamlit app
PastedTexts == {JoinLines(ls) : ls \in UNION {[1..n -> LineChoices] : n \in 0..MaxPasteLines}}

(* ---------------------------------------------------------------------- *)
(* Token lines in every spelling                                          *)
(* ---------------------------------------------------------------------- *)
\* most braces on one side of a token
MaxBraces == 3

\* most blanks between the braces and the inner text
MaxPad == 1

\* o opening braces, a blanks, the inner text, b blanks, c closing braces,
\* then the rest of the line
Spelled(o, a, inner, b, c, rest) ==
    [i \in 1..o |-> "{"] \o [i \in 1..a |-> " "] \o inner
        \o [i \in 1..b |-> " "] \o [i \in 1..c |-> "}"] \o rest

SpelledLines ==
    { Spelled(o, a, inner, b, c, rest) :
        o \in 1..MaxBraces, a \in 0..MaxPad, inner \in {Title, Lesson1Title},
        b \in 0..MaxPad, c \in 1..MaxBraces,
        rest \in {<<>>, <<" ">> \o ValA, ValA} }

\* a spelled token line, alone or after a token line without inline text,
\* alone or before a prose line
SpelledTexts ==
    { JoinLines(pre \o <<ln>> \o post) :
        pre \in {<<>>, <<Braced(Lesson1Title)>>},
        ln \in SpelledLines,
        post \in {<<>>, << <<"n", "o", "t", "e">> >>} }

(* ---------------------------------------------------------------------- *)
(* State                                                                  *)
(* ---------------------------------------------------------------------- *)
VARIABLES
    text,            \* parse_user_content: the argument
    idx,             \* parse_user_content: lines processed so far
    mapping,         \* parse_user_content: the dict being built
    missing,         \* the missing list parse_user_content returned
    ppc,             \* parse_user_content: "loop", "done"
    pc,              \* position of the script run: "idle", a step, "done"
    placeholder_map, \* handler: the mapping parse_user_content returned
    deck_title,      \* handler: title of the copy
    file_id,         \* copy_template_presentation: ID of the copy
    new_id,          \* handler: ID returned by copy_template_presentation
    calls,           \* operations the run has invoked, in order
    shown,           \* st.error / st.warning / st.success of the run, in order
    session,         \* st.session_state
    token_file,      \* token.json
    slide_ids,       \* build_slide_images_zip: number of slides of the deck
    slide_idx,       \* build_slide_images_zip: 1-based position of the slide
    size,            \* build_slide_images_zip: position in SIZES of the size tried
    attempt,         \* the attempt of the retry loop that is running
    zf,              \* build_slide_images_zip: entries written to the ZIP
    slide_calls,     \* requests made for the slide being exported, in order
    script,          \* command line: the generator script that is running
    out,             \* command line: lines printed, in order
    slept,           \* command line: the time.sleep pauses taken, in order
    exit_code,       \* command line: status the process ended with
    slide_link,      \* images page: the text input
    params,          \* the query parameters of the page URL
    environ          \* os.environ

parseVars == <<text, idx, mapping, ppc>>

appVars == <<pc, placeholder_map, deck_title, file_id, new_id, calls, shown, session, token_file>>

zipVars == <<slide_ids, slide_idx, size, attempt, zf, slide_calls>>

cliVars == <<script, out, slept, exit_code>>

webVars == <<slide_link, params, environ>>

vars == <<text, idx, mapping, missing, ppc, pc, placeholder_map, deck_title, file_id,
          new_id, calls, shown, session, token_file,
          slide_ids, slide_idx, size, attempt, zf, slide_calls,
          script, out, slept, exit_code,
          slide_link, params, environ>>

\* no document
NoDoc == 0

\* no token.json
NoToken == [exists |-> FALSE, expired |-> FALSE, refresh_token |-> FALSE]

TokenFiles ==
    {NoToken} \cup [exists : {TRUE}, expired : BOOLEAN, refresh_token : BOOLEAN]

\* st.session_state["img_zip"] = None
NoZip == [stored |-> FALSE, entries |-> <<>>]

\* a key that is not in st.session_state
Absent == "absent"

\* st.session_state of a new session: no deck, no archive, and none of the
\* keys password_correct, password and oauth_state
EmptySession ==
    [deck_id |-> NoDoc, share_link |-> NoDoc, deck_title |-> <<>>, title_placeholder |-> <<>>,
     zip_ready |-> FALSE, zip_data |-> <<>>,
     img_zip |-> NoZip,
     password_correct |-> Absent, password |-> Absent, oauth_state |-> Absent]

\* the page URL carries no query parameter
NoParams == [code |-> ""]

\* an environment that sets neither USE_SERVICE_ACCOUNT nor OAUTH_CLIENT_JSON
NoEnviron == [USE_SERVICE_ACCOUNT |-> "", OAUTH_CLIENT_JSON |-> "unset"]

\* nothing typed into the images page, a plain URL and environment
WebIdle ==
    /\ slide_link = <<>>
    /\ params = NoParams
    /\ environ = NoEnviron

\* build_slide_images_zip is not running
ZipIdle ==
    /\ slide_ids = 0
    /\ slide_idx = 0
    /\ size = 0
    /\ attempt = 0
    /\ zf = <<>>
    /\ slide_calls = <<>>

\* no command-line script is running
CliIdle ==
    /\ script = "app"
    /\ out = <<>>
    /\ slept = <<>>
    /\ exit_code = 0

\* the script has not run a handler: no locals, nothing invoked, nothing shown
AppIdle ==
    /\ pc = "idle"
    /\ placeholder_map = <<>>
    /\ deck_title = <<>>
    /\ file_id = NoDoc
    /\ new_id = NoDoc
    /\ calls = <<>>
    /\ shown = <<>>

ParseIdle ==
    /\ text = <<>>
    /\ idx = 0
    /\ mapping = <<>>
    /\ ppc = "done"

(* ---------------------------------------------------------------------- *)
(* parse_user_content, line by line                                       *)
(* ---------------------------------------------------------------------- *)
InitParse ==
    /\ text \in Texts
    /\ idx = 0
    /\ mapping = <<>>
    /\ missing = <<>>
    /\ ppc = "loop"
    /\ AppIdle
    /\ ZipIdle
    /\ CliIdle
    /\ WebIdle
    /\ session = EmptySession
    /\ token_file = NoToken

\* one iteration of "for idx, line in enumerate(text.splitlines())"
ParseStep ==
    /\ ppc = "loop"
    /\ idx < Len(splitlines(text))
    /\ mapping' = ParseLine(splitlines(text), idx + 1, mapping)
    /\ idx' = idx + 1
    /\ UNCHANGED <<text, missing, ppc>>
    /\ UNCHANGED appVars
    /\ UNCHANGED webVars
    /\ UNCHANGED cliVars
    /\ UNCHANGED zipVars

\* the loop is over: compute missing and return
ParseReturn ==
    /\ ppc = "loop"
    /\ idx = Len(splitlines(text))
    /\ missing' = Missing(mapping)
    /\ ppc' = "done"
    /\ UNCHANGED <<text, idx, mapping>>
    /\ UNCHANGED appVars
    /\ UNCHANGED webVars
    /\ UNCHANGED cliVars
    /\ UNCHANGED zipVars

NextParse == ParseStep \/ ParseReturn

SpecParse == InitParse /\ [][NextParse]_vars

\* the same function on token lines in every spelling
InitSpell ==
    /\ text \in SpelledTexts
    /\ idx = 0
    /\ mapping = <<>>
    /\ missing = <<>>
    /\ ppc = "loop"
    /\ AppIdle
    /\ ZipIdle
    /\ CliIdle
    /\ WebIdle
    /\ session = EmptySession
    /\ token_file = NoToken

SpecSpell == InitSpell /\ [][NextParse]_vars

(* ---------------------------------------------------------------------- *)
(* Remote calls and credentials                                           *)
(* ---------------------------------------------------------------------- *)
DocIds == 1..MaxDocs

\* HTTP status of a remote call: success, a client-side error, a server-side
\* error
Statuses == {200, 403, 503}

Ok(status) == status = 200

\* one invoked operation
Call(op, doc, status, arg) == [op |-> op, doc |-> doc, status |-> status, arg |-> arg]

\* the topic text input
Topics == {<<>>, <<"t">>}

\* variant: an expired credential is never refreshed, the consent flow is run
get_credentials_no_refresh(tf) ==
    IF tf.exists /\ ~tf.expired
    THEN { [raised |-> FALSE, token_file |-> tf, ops |-> <<>>] }
    ELSE { [raised |-> TRUE, token_file |-> tf,
            ops |-> <<Call("consent", NoDoc, 403, <<>>)>>] }
         \cup
         { [raised |-> FALSE,
            token_file |-> [exists |-> TRUE, expired |-> FALSE, refresh_token |-> rt],
            ops |-> <<Call("consent", NoDoc, 200, <<>>), Call("write_token", NoDoc, 200, <<>>)>>]
           : rt \in BOOLEAN }

\* get_credentials(): every way it can end for the token.json it finds.
\* raised: an exception leaves the function; token_file: token.json afterwards;
\* ops: the credential steps taken.
get_credentials(tf) ==
    IF tf.exists /\ tf.expired /\ tf.refresh_token
    THEN \* creds.refresh(Request()) ; the refreshed credential is valid
         { [raised |-> ~Ok(st), token_file |-> tf,
            ops |-> <<Call("refresh", NoDoc, st, <<>>)>>] : st \in Statuses }
    ELSE IF tf.exists /\ ~tf.expired
    THEN \* the stored credential is valid
         { [raised |-> FALSE, token_file |-> tf, ops |-> <<>>] }
    ELSE \* InstalledAppFlow ... run_local_server, then token.json is written
         { [raised |-> TRUE, token_file |-> tf,
            ops |-> <<Call("consent", NoDoc, 403, <<>>)>>] }
         \cup
         { [raised |-> FALSE,
            token_file |-> [exists |-> TRUE, expired |-> FALSE, refresh_token |-> rt],
            ops |-> <<Call("consent", NoDoc, 200, <<>>), Call("write_token", NoDoc, 200, <<>>)>>]
           : rt \in BOOLEAN }

(* ---------------------------------------------------------------------- *)
(* Generate Slide Deck handler                                            *)
(* ---------------------------------------------------------------------- *)
\* what parse_user_content returns for the texts that enable the button
\* (disabled = not user_input.strip())
ParseResults == {parse_user_content(t) : t \in {u \in PastedTexts : strip(u) # <<>>}}

\* variant: the run stops only when nothing at all was parsed
GateOnEmptyMap(pm, mis) == pm = <<>>

\* if missing: st.error(...); st.stop()
Gate(pm, mis) == mis # <<>>

\* placeholder_map.get("{{Title}}", "").strip()
TitlePlaceholder(pm) ==
    IF DictHas(pm, Braced(Title)) THEN strip(DictGet(pm, Braced(Title))) ELSE <<>>

TuesdayTips == <<"T", "u", "e", "s", "d", "a", "y", " ", "T", "i", "p", "s">>

\* the deck title, without its date
DeckTitle(pm, topic) ==
    IF TitlePlaceholder(pm) # <<>> THEN TitlePlaceholder(pm) \o <<" ", "|">>
    ELSE IF strip(topic) # <<>> THEN strip(topic) \o <<" ", "|">>
    ELSE TuesdayTips

\* variant: keys whose value is empty get no request
replace_requests_nonempty(pm) ==
    LET HasValue(e) == e[2] # <<>>
        kept == SelectSeq(pm, HasValue)
    IN  [i \in 1..Len(kept) |->
            [replaceAllText |-> [containsText |-> [text |-> kept[i][1], matchCase |-> TRUE],
                                 replaceText |-> kept[i][2]]]]

\* the batchUpdate body of replace_placeholders: one request per key of the
\* mapping, in the dict's order
replace_requests(pm) ==
    [i \in 1..Len(pm) |->
        [replaceAllText |-> [containsText |-> [text |-> pm[i][1], matchCase |-> TRUE],
                             replaceText |-> pm[i][2]]]]

\* variant: a failed files.update leaves copy_template_presentation as an
\* exception
MoveResultRaises(status, fid) ==
    [raised |-> ~Ok(status), warning |-> FALSE, ret |-> fid]

\* copy_template_presentation after files.update: a failure is caught and
\* turned into st.warning; file_id is returned either way
MoveResult(status, fid) ==
    [raised |-> FALSE, warning |-> ~Ok(status), ret |-> fid]

ErrorMissing(mis) == [kind |-> "error", what |-> "missing", keys |-> mis]

ErrorException == [kind |-> "error", what |-> "exception", keys |-> <<>>]

WarningMove == [kind |-> "warning", what |-> "move", keys |-> <<>>]

Success == [kind |-> "success", what |-> "ready", keys |-> <<>>]

\* except Exception as exc: st.error(...); st.stop()
Except ==
    /\ shown' = Append(shown, ErrorException)
    /\ pc' = "done"

\* the button is pressed: parse, then the gate on missing
ClickGenerate ==
    /\ pc = "idle"
    /\ \E r \in ParseResults :
          /\ placeholder_map' = r[1]
          /\ missing' = r[2]
          /\ IF Gate(r[1], r[2])
             THEN /\ shown' = <<ErrorMissing(r[2])>>
                  /\ pc' = "done"
             ELSE /\ shown' = <<>>
                  /\ pc' = "auth"
    /\ UNCHANGED <<deck_title, file_id, new_id, calls, session, token_file>>
    /\ UNCHANGED parseVars
    /\ UNCHANGED webVars
    /\ UNCHANGED cliVars
    /\ UNCHANGED zipVars

\* creds = get_credentials()
Authorize ==
    /\ pc = "auth"
    /\ \E o \in get_credentials(token_file) :
          /\ calls' = calls \o o.ops
          /\ token_file' = o.token_file
          /\ IF o.raised
             THEN Except
             ELSE pc' = "copy" /\ UNCHANGED shown
    /\ UNCHANGED <<missing, placeholder_map, deck_title, file_id, new_id, session>>
    /\ UNCHANGED parseVars
    /\ UNCHANGED webVars
    /\ UNCHANGED cliVars
    /\ UNCHANGED zipVars

\* the deck title, then copy_template_presentation up to files().copy()
CopyTemplate ==
    /\ pc = "copy"
    /\ \E topic \in Topics : deck_title' = DeckTitle(placeholder_map, topic)
    /\ \E st \in Statuses :
          IF Ok(st)
          THEN \E d \in DocIds :
                  /\ calls' = Append(calls, Call("files.copy", d, st, <<>>))
                  /\ file_id' = d
                  /\ pc' = "move"
                  /\ UNCHANGED shown
          ELSE /\ calls' = Append(calls, Call("files.copy", NoDoc, st, <<>>))
               /\ UNCHANGED file_id
               /\ Except
    /\ UNCHANGED <<missing, placeholder_map, new_id, session, token_file>>
    /\ UNCHANGED parseVars
    /\ UNCHANGED webVars
    /\ UNCHANGED cliVars
    /\ UNCHANGED zipVars

\* copy_template_presentation from files().update() to its return
MoveToFolder ==
    /\ pc = "move"
    /\ \E st \in Statuses :
          LET r == MoveResult(st, file_id)
          IN  /\ calls' = Append(calls, Call("files.update", file_id, st, <<>>))
              /\ IF r.raised
                 THEN Except /\ UNCHANGED new_id
                 ELSE /\ new_id' = r.ret
                      /\ shown' = IF r.warning THEN Append(shown, WarningMove) ELSE shown
                      /\ pc' = "replace"
    /\ UNCHANGED <<missing, placeholder_map, deck_title, file_id, session, token_file>>
    /\ UNCHANGED parseVars
    /\ UNCHANGED webVars
    /\ UNCHANGED cliVars
    /\ UNCHANGED zipVars

\* variant: the handler goes on to publish whether or not the substitution
\* succeeded
ReplacePlaceholdersUnchecked ==
    /\ pc = "replace"
    /\ \E st \in Statuses :
          /\ calls' = Append(calls, Call("batchUpdate", new_id, st, replace_requests(placeholder_map)))
          /\ pc' = "grant"
          /\ UNCHANGED shown
    /\ UNCHANGED <<missing, placeholder_map, deck_title, file_id, new_id, session, token_file>>
    /\ UNCHANGED parseVars
    /\ UNCHANGED webVars
    /\ UNCHANGED cliVars
    /\ UNCHANGED zipVars

\* replace_placeholders(slides_svc, new_id, placeholder_map)
ReplacePlaceholders ==
    /\ pc = "replace"
    /\ \E st \in Statuses :
          /\ calls' = Append(calls, Call("batchUpdate", new_id, st, replace_requests(placeholder_map)))
          /\ IF Ok(st) THEN pc' = "grant" /\ UNCHANGED shown ELSE Except
    /\ UNCHANGED <<missing, placeholder_map, deck_title, file_id, new_id, session, token_file>>
    /\ UNCHANGED parseVars
    /\ UNCHANGED webVars
    /\ UNCHANGED cliVars
    /\ UNCHANGED zipVars

\* variant: the link is fetched whether or not the grant succeeded
GrantPermissionUnchecked ==
    /\ pc = "grant"
    /\ \E st \in Statuses :
          /\ calls' = Append(calls, Call("permissions.create", new_id, st, <<>>))
          /\ pc' = "fetch"
          /\ UNCHANGED shown
    /\ UNCHANGED <<missing, placeholder_map, deck_title, file_id, new_id, session, token_file>>
    /\ UNCHANGED parseVars
    /\ UNCHANGED webVars
    /\ UNCHANGED cliVars
    /\ UNCHANGED zipVars

\* make_deck_public: permissions().create()
GrantPermission ==
    /\ pc = "grant"
    /\ \E st \in Statuses :
          /\ calls' = Append(calls, Call("permissions.create", new_id, st, <<>>))
          /\ IF Ok(st) THEN pc' = "fetch" /\ UNCHANGED shown ELSE Except
    /\ UNCHANGED <<missing, placeholder_map, deck_title, file_id, new_id, session, token_file>>
    /\ UNCHANGED parseVars
    /\ UNCHANGED webVars
    /\ UNCHANGED cliVars
    /\ UNCHANGED zipVars

\* variant: a newly generated deck drops the archive kept in the session
FetchLinkClearsArchive ==
    /\ pc = "fetch"
    /\ \E st \in Statuses :
          /\ calls' = Append(calls, Call("files.get", new_id, st, <<>>))
          /\ IF Ok(st)
             THEN /\ shown' = Append(shown, Success)
                  /\ session' = [session EXCEPT !.deck_id = new_id,
                                                !.share_link = new_id,
                                                !.deck_title = deck_title,
                                                !.title_placeholder = TitlePlaceholder(placeholder_map),
                                                !.zip_ready = FALSE,
                                                !.zip_data = <<>>]
                  /\ pc' = "done"
             ELSE Except /\ UNCHANGED session
    /\ UNCHANGED <<missing, placeholder_map, deck_title, file_id, new_id, token_file>>
    /\ UNCHANGED parseVars
    /\ UNCHANGED webVars
    /\ UNCHANGED cliVars
    /\ UNCHANGED zipVars

\* variant: deck_id is put into the session before the link is fetched
FetchLinkStoresFirst ==
    /\ pc = "fetch"
    /\ \E st \in Statuses :
          /\ calls' = Append(calls, Call("files.get", new_id, st, <<>>))
          /\ IF Ok(st)
             THEN /\ shown' = Append(shown, Success)
                  /\ session' = [session EXCEPT !.deck_id = new_id,
                                                !.share_link = new_id,
                                                !.deck_title = deck_title,
                                                !.title_placeholder = TitlePlaceholder(placeholder_map)]
                  /\ pc' = "done"
             ELSE Except /\ session' = [session EXCEPT !.deck_id = new_id]
    /\ UNCHANGED <<missing, placeholder_map, deck_title, file_id, new_id, token_file>>
    /\ UNCHANGED parseVars
    /\ UNCHANGED webVars
    /\ UNCHANGED cliVars
    /\ UNCHANGED zipVars

\* make_deck_public: files().get(webViewLink); then the success branch of the
\* handler: st.success, the four session entries, _rerun()
FetchLink ==
    /\ pc = "fetch"
    /\ \E st \in Statuses :
          /\ calls' = Append(calls, Call("files.get", new_id, st, <<>>))
          /\ IF Ok(st)
             THEN /\ shown' = Append(shown, Success)
                  /\ session' = [session EXCEPT !.deck_id = new_id,
                                                !.share_link = new_id,
                                                !.deck_title = deck_title,
                                                !.title_placeholder = TitlePlaceholder(placeholder_map)]
                  /\ pc' = "done"
             ELSE Except /\ UNCHANGED session
    /\ UNCHANGED <<missing, placeholder_map, deck_title, file_id, new_id, token_file>>
    /\ UNCHANGED parseVars
    /\ UNCHANGED webVars
    /\ UNCHANGED cliVars
    /\ UNCHANGED zipVars

\* the script run is over: its locals are gone, the page waits for input
EndRun ==
    /\ pc = "done"
    /\ pc' = "idle"
    /\ placeholder_map' = <<>>
    /\ missing' = <<>>
    /\ deck_title' = <<>>
    /\ file_id' = NoDoc
    /\ new_id' = NoDoc
    /\ calls' = <<>>
    /\ shown' = <<>>
    /\ slide_ids' = 0
    /\ slide_idx' = 0
    /\ size' = 0
    /\ attempt' = 0
    /\ zf' = <<>>
    /\ slide_calls' = <<>>
    /\ UNCHANGED <<session, token_file>>
    /\ UNCHANGED parseVars
    /\ UNCHANGED webVars
    /\ UNCHANGED cliVars

Init ==
    /\ ParseIdle
    /\ missing = <<>>
    /\ AppIdle
    /\ ZipIdle
    /\ CliIdle
    /\ WebIdle
    /\ session = EmptySession
    /\ token_file \in TokenFiles

Next ==
    \/ ClickGenerate
    \/ Authorize
    \/ CopyTemplate
    \/ MoveToFolder
    \/ ReplacePlaceholders
    \/ GrantPermission
    \/ FetchLink
    \/ EndRun

Spec == Init /\ [][Next]_vars

(* ---------------------------------------------------------------------- *)
(* Download Images handler and build_slide_images_zip                     *)
(* ---------------------------------------------------------------------- *)
\* variant: the medium size is tried first
SIZES_MediumFirst == <<"MEDIUM", "LARGE", "SMALL">>

\* for size in ("LARGE", "MEDIUM", "SMALL")
SIZES == <<"LARGE", "MEDIUM", "SMALL">>

\* for attempt in range(3)
Attempts == 3

\* how requests.get(img_url, timeout=30) with raise_for_status() can end: a
\* response with an HTTP status, or an exception that is no HTTPError
\* (connection error, timeout) and so carries no response
FetchOutcomes ==
    {[http |-> TRUE, status |-> st] : st \in {200, 404, 503}} \cup {[http |-> FALSE, status |-> 0]}

\* raise_for_status() does not raise
Fetched(outcome) == outcome.http /\ outcome.status = 200

Digits == <<"0", "1", "2", "3", "4", "5", "6", "7", "8", "9">>

\* the decimal digits of n
RECURSIVE Decimal(_)
Decimal(n) == IF n < 10 THEN <<Digits[n + 1]>> ELSE Decimal(n \div 10) \o <<Digits[(n % 10) + 1]>>

\* variant: f"slide_{idx}.png", the position without padding
SlideNameUnpadded(i) ==
    <<"s", "l", "i", "d", "e", "_">> \o Decimal(i) \o <<".", "p", "n", "g">>

\* f"slide_{idx:02d}.png"
SlideName(i) ==
    <<"s", "l", "i", "d", "e", "_">>
        \o (IF Len(Decimal(i)) < 2 THEN <<"0">> ELSE <<>>) \o Decimal(i)
        \o <<".", "p", "n", "g">>

\* resp.content of the download made for a slide at a size on an attempt
Content(slide, sz, att) == [slide |-> slide, size |-> SIZES[sz], attempt |-> att]

ThumbCall(slide, sz, status) ==
    [op |-> "getThumbnail", slide |-> slide, size |-> SIZES[sz], attempt |-> 0, status |-> status]

ImageCall(slide, sz, att, outcome) ==
    [op |-> "requests.get", slide |-> slide, size |-> SIZES[sz], attempt |-> att,
     status |-> IF outcome.http THEN outcome.status ELSE 0]

ErrorImages == [kind |-> "error", what |-> "images", keys |-> <<>>]

\* except Exception as img_exc: st.error(...)
DownloadExcept ==
    /\ shown' = Append(shown, ErrorImages)
    /\ pc' = "done"
    /\ UNCHANGED session

\* the ZIP is returned: zip_data and zip_ready are stored, then _rerun()
StoreZip(entries) ==
    /\ session' = [session EXCEPT !.zip_data = entries, !.zip_ready = TRUE]
    /\ pc' = "done"
    /\ UNCHANGED shown

\* variant: a server error is retried however many attempts were made
RetryUnbounded(outcome, att) == outcome.http /\ outcome.status >= 500

\* variant: a retry is made after any HTTP error status
RetryOnAnyStatus(outcome, att) == outcome.http /\ att < Attempts - 1

\* except HTTPError: if resp.status_code >= 500 and attempt < 2: continue
Retry(outcome, att) == outcome.http /\ outcome.status >= 500 /\ att < Attempts - 1

\* variant: when SMALL fails too, the slides fetched so far are returned
SizeFailedReturnsPartial ==
    IF SIZES[size] = "SMALL"
    THEN /\ StoreZip(zf)
         /\ UNCHANGED <<size, attempt>>
    ELSE /\ size' = size + 1
         /\ attempt' = 0
         /\ pc' = "thumb"
         /\ UNCHANGED <<shown, session>>

\* except Exception: if size == "SMALL": raise ; continue
SizeFailed ==
    IF SIZES[size] = "SMALL"
    THEN /\ DownloadExcept
         /\ UNCHANGED <<size, attempt>>
    ELSE /\ size' = size + 1
         /\ attempt' = 0
         /\ pc' = "thumb"
         /\ UNCHANGED <<shown, session>>

\* the button is pressed; it is only there while "zip_ready" is not in the
\* session and a deck is
ClickDownload ==
    /\ pc = "idle"
    /\ session.deck_id # NoDoc
    /\ ~session.zip_ready
    /\ pc' = "dl_auth"
    /\ UNCHANGED <<missing, placeholder_map, deck_title, file_id, new_id, calls, shown, session, token_file>>
    /\ UNCHANGED parseVars
    /\ UNCHANGED webVars
    /\ UNCHANGED cliVars
    /\ UNCHANGED zipVars

\* creds = get_credentials()
DownloadAuthorize ==
    /\ pc = "dl_auth"
    /\ \E o \in get_credentials(token_file) :
          /\ calls' = calls \o o.ops
          /\ token_file' = o.token_file
          /\ IF o.raised
             THEN DownloadExcept
             ELSE pc' = "meta" /\ UNCHANGED <<shown, session>>
    /\ UNCHANGED <<missing, placeholder_map, deck_title, file_id, new_id>>
    /\ UNCHANGED parseVars
    /\ UNCHANGED webVars
    /\ UNCHANGED cliVars
    /\ UNCHANGED zipVars

\* presentations().get(fields="slides.objectId"); a deck without slides gives
\* an empty ZIP at once
GetPresentation ==
    /\ pc = "meta"
    /\ \E st \in Statuses :
          /\ calls' = Append(calls, Call("presentations.get", session.deck_id, st, <<>>))
          /\ IF Ok(st)
             THEN \E n \in 0..MaxSlides :
                     /\ slide_ids' = n
                     /\ IF n = 0
                        THEN /\ StoreZip(<<>>)
                             /\ UNCHANGED <<slide_idx, size>>
                        ELSE /\ slide_idx' = 1
                             /\ size' = 1
                             /\ pc' = "thumb"
                             /\ UNCHANGED <<shown, session>>
             ELSE /\ DownloadExcept
                  /\ UNCHANGED <<slide_ids, slide_idx, size>>
    /\ UNCHANGED <<attempt, zf, slide_calls>>
    /\ UNCHANGED <<missing, placeholder_map, deck_title, file_id, new_id, token_file>>
    /\ UNCHANGED parseVars
    /\ UNCHANGED webVars
    /\ UNCHANGED cliVars

\* getThumbnail(pageObjectId=slide_id, thumbnailSize=size).execute()
GetThumbnail ==
    /\ pc = "thumb"
    /\ \E st \in Statuses :
          /\ slide_calls' = Append(IF size = 1 THEN <<>> ELSE slide_calls,
                                   ThumbCall(slide_idx, size, st))
          /\ IF Ok(st)
             THEN /\ attempt' = 0
                  /\ pc' = "image"
                  /\ UNCHANGED <<size, shown, session>>
             ELSE SizeFailed
    /\ UNCHANGED <<slide_ids, slide_idx, zf, calls>>
    /\ UNCHANGED <<missing, placeholder_map, deck_title, file_id, new_id, token_file>>
    /\ UNCHANGED parseVars
    /\ UNCHANGED webVars
    /\ UNCHANGED cliVars

\* one pass of "for attempt in range(3)": requests.get, raise_for_status,
\* writestr; after the last slide the ZIP is returned and stored
FetchImage ==
    /\ pc = "image"
    /\ \E outcome \in FetchOutcomes :
          /\ slide_calls' = Append(slide_calls, ImageCall(slide_idx, size, attempt, outcome))
          /\ IF Fetched(outcome)
             THEN LET entry == [name |-> SlideName(slide_idx), content |-> Content(slide_idx, size, attempt)]
                  IN  /\ zf' = Append(zf, entry)
                      /\ IF slide_idx = slide_ids
                         THEN /\ StoreZip(Append(zf, entry))
                              /\ UNCHANGED <<slide_idx, size, attempt>>
                         ELSE /\ slide_idx' = slide_idx + 1
                              /\ size' = 1
                              /\ attempt' = 0
                              /\ pc' = "thumb"
                              /\ UNCHANGED <<shown, session>>
             ELSE /\ UNCHANGED <<zf, slide_idx>>
                  /\ IF Retry(outcome, attempt)
                     THEN /\ attempt' = attempt + 1
                          /\ UNCHANGED <<pc, size, shown, session>>
                     ELSE SizeFailed
    /\ UNCHANGED <<slide_ids, calls>>
    /\ UNCHANGED <<missing, placeholder_map, deck_title, file_id, new_id, token_file>>
    /\ UNCHANGED parseVars
    /\ UNCHANGED webVars
    /\ UNCHANGED cliVars

\* a session in which a deck was generated: the record FetchLink writes
InitExport ==
    /\ ParseIdle
    /\ missing = <<>>
    /\ AppIdle
    /\ ZipIdle
    /\ CliIdle
    /\ WebIdle
    /\ \E d \in DocIds :
          session = [EmptySession EXCEPT !.deck_id = d, !.share_link = d,
                                         !.deck_title = ValA \o <<" ", "|">>,
                                         !.title_placeholder = ValA]
    /\ token_file \in TokenFiles

NextExport ==
    \/ ClickDownload
    \/ DownloadAuthorize
    \/ GetPresentation
    \/ GetThumbnail
    \/ FetchImage
    \/ EndRun

SpecExport == InitExport /\ [][NextExport]_vars

(* ---------------------------------------------------------------------- *)
(* One browser session of app.py: both buttons                            *)
(* ---------------------------------------------------------------------- *)
\* a new session, with a valid token.json on disk
InitSession ==
    /\ Init
    /\ token_file = [exists |-> TRUE, expired |-> FALSE, refresh_token |-> TRUE]

\* every script run handles one button: Generate Slide Deck or Download Images
NextSession ==
    \/ Next
    \/ NextExport

SpecSession == InitSession /\ [][NextSession]_vars

(* ---------------------------------------------------------------------- *)
(* Command-line generators: generate_54321_deck.py, generate_grow_deck.py, *)
(* generate_star_deck.py                                                  *)
(* ---------------------------------------------------------------------- *)
Scripts == {"54321", "grow", "star"}

Subtitle == <<"S", "u", "b", "t", "i", "t", "l", "e">>

\* the fixed placeholder -> replacement dict of a script
PLACEHOLDER_MAP == << <<Braced(Title), ValBC>>, <<Braced(Subtitle), ValA>> >>

\* def replace_text_with_retry(..., retries: int = 3)
retries == 3

\* how batchUpdate(...).execute() can end: an HttpError with a status, or an
\* exception that is no HttpError (status 0: no HTTP response)
BatchOutcomes ==
    {[http |-> TRUE, status |-> st] : st \in {200, 404, 500, 502, 503}}
        \cup {[http |-> FALSE, status |-> 0]}

\* variant: every HTTP error is taken as transient
RetryBatchAnyStatus(outcome, att) == outcome.http /\ att < retries

\* variant: every server-side status is taken as transient
RetryBatchAnyServerError(outcome, att) == outcome.http /\ outcome.status >= 500 /\ att < retries

\* except HttpError as e: if e.resp.status in {500, 503} and attempt < retries
RetryBatch(outcome, att) == outcome.http /\ outcome.status \in {500, 503} /\ att < retries

\* time.sleep(2 * attempt)
Backoff(att) == 2 * att

Line(stream, what, doc) == [stream |-> stream, what |-> what, doc |-> doc]

\* if __name__ == "__main__": except Exception: print(ERROR, file=sys.stderr);
\* sys.exit(1)
CliExcept ==
    /\ out' = Append(out, Line("stderr", "ERROR", NoDoc))
    /\ exit_code' = 1
    /\ pc' = "exited"

\* a script is started: main() up to get_credentials()
CliAuthorize ==
    /\ pc = "cli_auth"
    /\ \E o \in get_credentials(token_file) :
          /\ calls' = calls \o o.ops
          /\ token_file' = o.token_file
          /\ IF o.raised
             THEN CliExcept
             ELSE /\ out' = Append(out, Line("stdout", "Copying template", NoDoc))
                  /\ pc' = "cli_copy"
                  /\ UNCHANGED exit_code
    /\ UNCHANGED <<missing, placeholder_map, deck_title, file_id, new_id, shown, session>>
    /\ UNCHANGED <<script, slept>>
    /\ UNCHANGED parseVars
    /\ UNCHANGED webVars
    /\ UNCHANGED zipVars

\* copy_presentation(drive_service)
CliCopy ==
    /\ pc = "cli_copy"
    /\ \E st \in Statuses :
          IF Ok(st)
          THEN \E d \in DocIds :
                  /\ calls' = Append(calls, Call("files.copy", d, st, <<>>))
                  /\ new_id' = d
                  /\ out' = out \o <<Line("stdout", "New presentation ID", d),
                                     Line("stdout", "Replacing placeholders", NoDoc)>>
                  /\ attempt' = 1
                  /\ pc' = "cli_replace"
                  /\ UNCHANGED exit_code
          ELSE /\ calls' = Append(calls, Call("files.copy", NoDoc, st, <<>>))
               /\ UNCHANGED <<new_id, attempt>>
               /\ CliExcept
    /\ UNCHANGED <<missing, placeholder_map, deck_title, file_id, shown, session, token_file>>
    /\ UNCHANGED <<script, slept>>
    /\ UNCHANGED <<slide_ids, slide_idx, size, zf, slide_calls>>
    /\ UNCHANGED parseVars
    /\ UNCHANGED webVars

\* one pass of "for attempt in range(1, retries + 1)" of
\* replace_text_with_retry (generate_54321_deck.py), or the single batchUpdate
\* of replace_all_text (generate_grow_deck.py, generate_star_deck.py)
CliReplace ==
    /\ pc = "cli_replace"
    /\ \E outcome \in BatchOutcomes :
          /\ calls' = Append(calls, Call("batchUpdate", new_id, outcome.status,
                                         replace_requests(PLACEHOLDER_MAP)))
          /\ IF outcome.http /\ Ok(outcome.status)
             THEN /\ out' = Append(out, Line("stdout", "Setting public link", NoDoc))
                  /\ pc' = "cli_grant"
                  /\ UNCHANGED <<attempt, slept, exit_code>>
             ELSE IF script = "54321" /\ RetryBatch(outcome, attempt)
             THEN /\ slept' = Append(slept, Backoff(attempt))
                  /\ attempt' = attempt + 1
                  /\ UNCHANGED <<pc, out, exit_code>>
             ELSE /\ CliExcept
                  /\ UNCHANGED <<attempt, slept>>
    /\ UNCHANGED <<missing, placeholder_map, deck_title, file_id, new_id, shown, session, token_file>>
    /\ UNCHANGED script
    /\ UNCHANGED <<slide_ids, slide_idx, size, zf, slide_calls>>
    /\ UNCHANGED parseVars
    /\ UNCHANGED webVars

\* make_public: permissions().create()
CliGrant ==
    /\ pc = "cli_grant"
    /\ \E st \in Statuses :
          /\ calls' = Append(calls, Call("permissions.create", new_id, st, <<>>))
          /\ IF Ok(st)
             THEN pc' = "cli_fetch" /\ UNCHANGED <<out, exit_code>>
             ELSE CliExcept
    /\ UNCHANGED <<missing, placeholder_map, deck_title, file_id, new_id, shown, session, token_file>>
    /\ UNCHANGED <<script, slept>>
    /\ UNCHANGED parseVars
    /\ UNCHANGED webVars
    /\ UNCHANGED zipVars

\* make_public: files().get(webViewLink); then main prints the link
CliFetch ==
    /\ pc = "cli_fetch"
    /\ \E st \in Statuses :
          /\ calls' = Append(calls, Call("files.get", new_id, st, <<>>))
          /\ IF Ok(st)
             THEN /\ out' = Append(out, Line("stdout", "Deck ready", new_id))
                  /\ pc' = "exited"
                  /\ UNCHANGED exit_code
             ELSE CliExcept
    /\ UNCHANGED <<missing, placeholder_map, deck_title, file_id, new_id, shown, session, token_file>>
    /\ UNCHANGED <<script, slept>>
    /\ UNCHANGED parseVars
    /\ UNCHANGED webVars
    /\ UNCHANGED zipVars

\* the process has ended; a script is started again in the same directory,
\* where token.json stays
CliStart ==
    /\ pc = "exited"
    /\ script' \in Scripts
    /\ pc' = "cli_auth"
    /\ calls' = <<>>
    /\ out' = <<>>
    /\ slept' = <<>>
    /\ exit_code' = 0
    /\ new_id' = NoDoc
    /\ attempt' = 0
    /\ UNCHANGED <<missing, placeholder_map, deck_title, file_id, shown, session, token_file>>
    /\ UNCHANGED <<slide_ids, slide_idx, size, zf, slide_calls>>
    /\ UNCHANGED parseVars
    /\ UNCHANGED webVars

InitCli ==
    /\ ParseIdle
    /\ WebIdle
    /\ missing = <<>>
    /\ pc = "cli_auth"
    /\ placeholder_map = <<>>
    /\ deck_title = <<>>
    /\ file_id = NoDoc
    /\ new_id = NoDoc
    /\ calls = <<>>
    /\ shown = <<>>
    /\ ZipIdle
    /\ session = EmptySession
    /\ token_file \in TokenFiles
    /\ script \in Scripts
    /\ out = <<>>
    /\ slept = <<>>
    /\ exit_code = 0

NextCli ==
    \/ CliAuthorize
    \/ CliCopy
    \/ CliReplace
    \/ CliGrant
    \/ CliFetch
    \/ CliStart

SpecCli == InitCli /\ [][NextCli]_vars

\* every deck generator: the Streamlit handler and the command-line scripts
InitDecks == Init \/ InitCli

NextDecks == Next \/ NextCli

SpecDecks == InitDecks /\ [][NextDecks]_vars

(* ---------------------------------------------------------------------- *)
(* pages/generate_images.py                                               *)
(* ---------------------------------------------------------------------- *)
\* the characters of [a-zA-Z0-9_-]
IdChars ==
    {"a", "b", "c", "d", "e", "f", "g", "h", "i", "j", "k", "l", "m",
     "n", "o", "p", "q", "r", "s", "t", "u", "v", "w", "x", "y", "z",
     "A", "B", "C", "D", "E", "F", "G", "H", "I", "J", "K", "L", "M",
     "N", "O", "P", "Q", "R", "S", "T", "U", "V", "W", "X", "Y", "Z",
     "0", "1", "2", "3", "4", "5", "6", "7", "8", "9", "_", "-"}

\* len(url_or_id) >= 25
MinIdLen == 25

\* where re.search(r"/d/([a-zA-Z0-9_-]+)", s) can match: "/d/" and one
\* character of the ID at least
DMatches(s) ==
    {i \in 1..Len(s) : /\ i + 3 <= Len(s)
                      /\ s[i] = "/" /\ s[i + 1] = "d" /\ s[i + 2] = "/"
                      /\ s[i + 3] \in IdChars}

\* match.group(1) of the leftmost match
DGroup(s) ==
    LET i == CHOOSE j \in DMatches(s) : \A j2 \in DMatches(s) : j <= j2
    IN  SubSeq(s, i + 3, i + 2 + RunIn(s, i + 3, IdChars))

\* variant: a text without a slash is taken as the ID whatever its length
_extract_presentation_id_any_length(url_or_id) ==
    LET s == strip(url_or_id)
    IN  IF s = <<>> THEN [raised |-> TRUE, id |-> <<>>]
        ELSE IF \A i \in 1..Len(s) : s[i] # "/"
             THEN [raised |-> FALSE, id |-> s]
        ELSE IF DMatches(s) # {} THEN [raised |-> FALSE, id |-> DGroup(s)]
        ELSE [raised |-> TRUE, id |-> <<>>]

\* _extract_presentation_id(url_or_id): the ID, or ValueError
_extract_presentation_id(url_or_id) ==
    LET s == strip(url_or_id)
    IN  IF s = <<>> THEN [raised |-> TRUE, id |-> <<>>]
        ELSE IF (\A i \in 1..Len(s) : s[i] # "/") /\ Len(s) >= MinIdLen
             THEN [raised |-> FALSE, id |-> s]
        ELSE IF DMatches(s) # {} THEN [raised |-> FALSE, id |-> DGroup(s)]
        ELSE [raised |-> TRUE, id |-> <<>>]

\* n times the character c
Rep(c, n) == [i \in 1..n |-> c]

\* what is typed into "Google Slides link or ID:"
SlideLinks ==
    { <<" ", "\t">>,                                          \* blank
      Rep("a", MinIdLen),                                     \* an ID
      <<" ">> \o Rep("a", MinIdLen) \o <<" ">>,               \* an ID in blanks
      Rep("a", MinIdLen - 1),                                 \* one too short
      <<"x", "/", "d", "/", "a", "b", "/", "e">>,             \* x/d/ab/e
      <<"/", "d", "/">>,                                      \* /d/
      <<"/", "d", "/", "/", "d", "/", "a", "_", "-", "?">>,   \* /d//d/a_-?
      Rep("a", MinIdLen) \o <<"/">> }                         \* long, a slash

\* the archives build_slide_images_zip can return: one entry per slide, in
\* order, each the image of some size and attempt
Archives ==
    UNION { { [i \in 1..n |-> [name |-> SlideName(i),
                               content |-> Content(i, c[i][1], c[i][2])]]
              : c \in [1..n -> (1..Len(SIZES)) \X (0..(Attempts - 1))] }
            : n \in 0..MaxSlides }

\* the archives of the exports in which every image came with the first
\* request made for its slide
PlainArchives ==
    { [i \in 1..n |-> [name |-> SlideName(i), content |-> Content(i, 1, 0)]] : n \in 0..MaxSlides }

\* build_slide_images_zip(creds, slides_svc, pres_id) as a whole: it raises,
\* or returns an archive
build_slide_images_zip ==
    {[raised |-> TRUE, entries |-> <<>>]} \cup {[raised |-> FALSE, entries |-> e] : e \in Archives}

ErrorPage == [kind |-> "error", what |-> "could not generate images", keys |-> <<>>]

\* except Exception as exc: st.error(...)
PageExcept ==
    /\ shown' = Append(shown, ErrorPage)
    /\ pc' = "done"
    /\ UNCHANGED session

\* the button is pressed (it is disabled while the input is blank):
\* pres_id = _extract_presentation_id(slide_link)
PageClick ==
    /\ pc = "idle"
    /\ \E l \in SlideLinks :
          /\ strip(l) # <<>>
          /\ slide_link' = l
          /\ IF _extract_presentation_id(l).raised
             THEN /\ shown' = <<ErrorPage>>
                  /\ pc' = "done"
             ELSE /\ shown' = <<>>
                  /\ pc' = "pg_auth"
    /\ UNCHANGED <<missing, placeholder_map, deck_title, file_id, new_id, calls, session, token_file>>
    /\ UNCHANGED <<params, environ>>
    /\ UNCHANGED parseVars
    /\ UNCHANGED cliVars
    /\ UNCHANGED zipVars

\* creds = get_credentials(), the one of app.py
PageAuthorize ==
    /\ pc = "pg_auth"
    /\ \E o \in get_credentials(token_file) :
          /\ calls' = calls \o o.ops
          /\ token_file' = o.token_file
          /\ IF o.raised
             THEN PageExcept
             ELSE pc' = "pg_zip" /\ UNCHANGED <<shown, session>>
    /\ UNCHANGED <<missing, placeholder_map, deck_title, file_id, new_id>>
    /\ UNCHANGED webVars
    /\ UNCHANGED parseVars
    /\ UNCHANGED cliVars
    /\ UNCHANGED zipVars

\* zip_buf = build_slide_images_zip(creds, slides_svc, pres_id);
\* st.session_state["img_zip"] = zip_buf.getvalue()
PageExport ==
    /\ pc = "pg_zip"
    /\ \E st \in Statuses :
          /\ calls' = Append(calls, Call("presentations.get", NoDoc, st,
                                         _extract_presentation_id(slide_link).id))
          /\ IF ~Ok(st)
             THEN PageExcept
             ELSE \E o \in build_slide_images_zip :
                     IF o.raised
                     THEN PageExcept
                     ELSE /\ session' = [session EXCEPT !.img_zip = [stored |-> TRUE, entries |-> o.entries]]
                          /\ pc' = "done"
                          /\ UNCHANGED shown
    /\ UNCHANGED <<missing, placeholder_map, deck_title, file_id, new_id, token_file>>
    /\ UNCHANGED webVars
    /\ UNCHANGED parseVars
    /\ UNCHANGED cliVars
    /\ UNCHANGED zipVars

InitPage ==
    /\ ParseIdle
    /\ missing = <<>>
    /\ AppIdle
    /\ ZipIdle
    /\ CliIdle
    /\ WebIdle
    /\ session = EmptySession
    /\ token_file \in TokenFiles

NextPage ==
    \/ PageClick
    \/ PageAuthorize
    \/ PageExport
    \/ EndRun

SpecPage == InitPage /\ [][NextPage]_vars

(* ---------------------------------------------------------------------- *)
(* generate_infographic.py: password gate and web OAuth flow              *)
(* ---------------------------------------------------------------------- *)
\* the password the script compares with
ConfiguredPassword == "generateamazingtipsALX"

\* what is typed into the password field
Passwords == {ConfiguredPassword, "guess", "letmein"}

\* password_entered(): the on_change callback of the password field
password_entered(ss) ==
    IF ss.password = ConfiguredPassword
    THEN [ss EXCEPT !.password_correct = "True", !.password = Absent]
    ELSE [ss EXCEPT !.password_correct = "False"]

\* variant: the gate lets a session through until a wrong password was given
check_password_unless_wrong(ss) == ss.password_correct # "False"

\* check_password(): True only when password_correct is in the session and True
check_password(ss) == ss.password_correct = "True"

\* variant: the password field is on the page in every run
PasswordFormShownAlways(ss) == TRUE

\* check_password() puts the password field on the page unless
\* password_correct is True
PasswordFormShown(ss) == ss.password_correct # "True"

\* os.environ as far as get_credentials reads it
Environs ==
    { [USE_SERVICE_ACCOUNT |-> "1", OAUTH_CLIENT_JSON |-> "unset"],
      [USE_SERVICE_ACCOUNT |-> "", OAUTH_CLIENT_JSON |-> "unset"],
      [USE_SERVICE_ACCOUNT |-> "", OAUTH_CLIENT_JSON |-> "invalid"],
      [USE_SERVICE_ACCOUNT |-> "", OAUTH_CLIENT_JSON |-> "valid"] }

\* the page URL: plain, or the one Google redirects to
QueryParams == {NoParams, [code |-> "c"]}

ErrorClientConfig == [kind |-> "error", what |-> "OAUTH_CLIENT_JSON", keys |-> <<>>]

InfoAuthorise == [kind |-> "info", what |-> "authorisation required", keys |-> <<>>]

SuccessAuthorised == [kind |-> "success", what |-> "authorisation complete", keys |-> <<>>]

\* one way get_credentials can end: "returned" (a credential), "raised" (an
\* exception the caller catches) or "stopped" (st.stop() or _rerun(), which
\* end the script run), with what it left behind
CredOutcome(kind, tf, prm, st, ops, msgs) ==
    [kind |-> kind, token_file |-> tf, params |-> prm, oauth_state |-> st,
     ops |-> ops, shown |-> msgs]

\* variant: after the code exchange the credential is returned to the caller
get_credentials_web_returns(env, tf, prm, ss) ==
    IF env.USE_SERVICE_ACCOUNT = "1"
    THEN { CredOutcome(k, tf, prm, ss.oauth_state, <<>>, <<>>) : k \in {"returned", "raised"} }
    ELSE IF tf.exists /\ tf.expired /\ tf.refresh_token
    THEN { CredOutcome(IF Ok(st) THEN "returned" ELSE "raised", tf, prm, ss.oauth_state,
                       <<Call("refresh", NoDoc, st, <<>>)>>, <<>>) : st \in Statuses }
    ELSE IF tf.exists /\ ~tf.expired
    THEN { CredOutcome("returned", tf, prm, ss.oauth_state, <<>>, <<>>) }
    ELSE IF env.OAUTH_CLIENT_JSON # "valid"
    THEN { CredOutcome("stopped", tf, prm, ss.oauth_state, <<>>, <<ErrorClientConfig>>) }
    ELSE IF prm.code # ""
    THEN { CredOutcome("raised", tf, prm, Absent,
                       <<Call("fetch_token", NoDoc, st, <<>>)>>, <<>>)
           : st \in Statuses \ {200} }
         \cup
         { CredOutcome("returned",
                       [exists |-> TRUE, expired |-> FALSE, refresh_token |-> rt],
                       NoParams, Absent,
                       <<Call("fetch_token", NoDoc, 200, <<>>),
                         Call("write_token", NoDoc, 200, <<>>)>>,
                       <<SuccessAuthorised>>)
           : rt \in BOOLEAN }
    ELSE { CredOutcome("stopped", tf, prm, "state", <<>>, <<InfoAuthorise>>) }

\* get_credentials() of generate_infographic.py
get_credentials_web(env, tf, prm, ss) ==
    IF env.USE_SERVICE_ACCOUNT = "1"
    THEN \* the service-account key is loaded, or loading it raises
         { CredOutcome(k, tf, prm, ss.oauth_state, <<>>, <<>>) : k \in {"returned", "raised"} }
    ELSE IF tf.exists /\ tf.expired /\ tf.refresh_token
    THEN \* creds.refresh(Request()) ; the refreshed credential is valid
         { CredOutcome(IF Ok(st) THEN "returned" ELSE "raised", tf, prm, ss.oauth_state,
                       <<Call("refresh", NoDoc, st, <<>>)>>, <<>>) : st \in Statuses }
    ELSE IF tf.exists /\ ~tf.expired
    THEN \* the stored credential is valid
         { CredOutcome("returned", tf, prm, ss.oauth_state, <<>>, <<>>) }
    ELSE IF env.OAUTH_CLIENT_JSON # "valid"
    THEN \* st.error(...) ; st.stop()
         { CredOutcome("stopped", tf, prm, ss.oauth_state, <<>>, <<ErrorClientConfig>>) }
    ELSE IF prm.code # ""
    THEN \* phase 2: oauth_state is popped, then flow.fetch_token(code=code)
         \* raises, or token.json is written, the query parameters are
         \* cleared and the script is rerun
         { CredOutcome("raised", tf, prm, Absent,
                       <<Call("fetch_token", NoDoc, st, <<>>)>>, <<>>)
           : st \in Statuses \ {200} }
         \cup
         { CredOutcome("stopped",
                       [exists |-> TRUE, expired |-> FALSE, refresh_token |-> rt],
                       NoParams, Absent,
                       <<Call("fetch_token", NoDoc, 200, <<>>),
                         Call("write_token", NoDoc, 200, <<>>)>>,
                       <<SuccessAuthorised>>)
           : rt \in BOOLEAN }
    ELSE \* phase 1: the state is kept in the session, the link is shown
         { CredOutcome("stopped", tf, prm, "state", <<>>, <<InfoAuthorise>>) }

\* a password is typed: Streamlit puts it into st.session_state["password"]
\* and calls the callback before the script runs again
TypePassword ==
    /\ pc = "idle"
    /\ PasswordFormShown(session)
    /\ \E pw \in Passwords :
          /\ pw # session.password
          /\ session' = [session EXCEPT !.password = pw]
    /\ pc' = "password"
    /\ UNCHANGED <<missing, placeholder_map, deck_title, file_id, new_id, calls, shown, token_file>>
    /\ UNCHANGED webVars
    /\ UNCHANGED parseVars
    /\ UNCHANGED cliVars
    /\ UNCHANGED zipVars

\* password_entered(), then the script run: check_password() and, unless it
\* returns True, st.stop(); no button was pressed in this run
PasswordEntered ==
    /\ pc = "password"
    /\ session' = password_entered(session)
    /\ pc' = "idle"
    /\ UNCHANGED <<missing, placeholder_map, deck_title, file_id, new_id, calls, shown, token_file>>
    /\ UNCHANGED webVars
    /\ UNCHANGED parseVars
    /\ UNCHANGED cliVars
    /\ UNCHANGED zipVars

\* Generate Slide Deck is pressed; the button is on the page only when
\* check_password() returned True: parse, then the gate on missing
InfClickGenerate ==
    /\ pc = "idle"
    /\ check_password(session)
    /\ \E r \in ParseResults :
          /\ placeholder_map' = r[1]
          /\ missing' = r[2]
          /\ IF Gate(r[1], r[2])
             THEN /\ shown' = <<ErrorMissing(r[2])>>
                  /\ pc' = "done"
             ELSE /\ shown' = <<>>
                  /\ pc' = "inf_auth"
    /\ UNCHANGED <<deck_title, file_id, new_id, calls, session, token_file>>
    /\ UNCHANGED webVars
    /\ UNCHANGED parseVars
    /\ UNCHANGED cliVars
    /\ UNCHANGED zipVars

\* what get_credentials leaves behind
CredEffects(o) ==
    /\ calls' = calls \o o.ops
    /\ token_file' = o.token_file
    /\ params' = o.params
    /\ session' = [session EXCEPT !.oauth_state = o.oauth_state]
    /\ UNCHANGED <<slide_link, environ>>

\* creds = get_credentials() in the Generate handler
InfAuthorize ==
    /\ pc = "inf_auth"
    /\ \E o \in get_credentials_web(environ, token_file, params, session) :
          /\ CredEffects(o)
          /\ IF o.kind = "returned" THEN pc' = "copy" /\ shown' = shown \o o.shown
             ELSE IF o.kind = "raised" THEN Except
             ELSE pc' = "done" /\ shown' = shown \o o.shown
    /\ UNCHANGED <<missing, placeholder_map, deck_title, file_id, new_id>>
    /\ UNCHANGED parseVars
    /\ UNCHANGED cliVars
    /\ UNCHANGED zipVars

\* Download Images is pressed; it is on the page while a deck is in the
\* session and "zip_ready" is not
InfClickDownload ==
    /\ pc = "idle"
    /\ check_password(session)
    /\ session.deck_id # NoDoc
    /\ ~session.zip_ready
    /\ pc' = "inf_dl_auth"
    /\ UNCHANGED <<missing, placeholder_map, deck_title, file_id, new_id, calls, shown, session, token_file>>
    /\ UNCHANGED webVars
    /\ UNCHANGED parseVars
    /\ UNCHANGED cliVars
    /\ UNCHANGED zipVars

\* creds = get_credentials() in the Download Images handler
InfDownloadAuthorize ==
    /\ pc = "inf_dl_auth"
    /\ \E o \in get_credentials_web(environ, token_file, params, session) :
          /\ CredEffects(o)
          /\ IF o.kind = "returned" THEN pc' = "inf_zip" /\ shown' = shown \o o.shown
             ELSE IF o.kind = "raised" THEN shown' = Append(shown, ErrorImages) /\ pc' = "done"
             ELSE pc' = "done" /\ shown' = shown \o o.shown
    /\ UNCHANGED <<missing, placeholder_map, deck_title, file_id, new_id>>
    /\ UNCHANGED parseVars
    /\ UNCHANGED cliVars
    /\ UNCHANGED zipVars

\* zip_buf = build_slide_images_zip(creds, slides_svc, deck_id), as a whole:
\* it raises or returns an archive; then zip_data, zip_ready, _rerun()
InfExport ==
    /\ pc = "inf_zip"
    /\ \E st \in Statuses :
          /\ calls' = Append(calls, Call("presentations.get", session.deck_id, st, <<>>))
          /\ IF ~Ok(st)
             THEN DownloadExcept
             ELSE \/ DownloadExcept
                  \/ \E e \in PlainArchives : StoreZip(e)
    /\ UNCHANGED <<missing, placeholder_map, deck_title, file_id, new_id, token_file>>
    /\ UNCHANGED webVars
    /\ UNCHANGED parseVars
    /\ UNCHANGED cliVars
    /\ UNCHANGED zipVars

\* token.json holds a credential that is valid or can be refreshed
Usable(tf) == tf.exists /\ (~tf.expired \/ tf.refresh_token)

\* token.json and the page URL a session can start with. What a run does not
\* read is left plain: neither of them in service-account mode, the URL when
\* token.json is usable or no client configuration is set
StartsOf(env) ==
    IF env.USE_SERVICE_ACCOUNT = "1" THEN {<<NoToken, NoParams>>}
    ELSE IF env.OAUTH_CLIENT_JSON # "valid"
    THEN {tf \in TokenFiles : ~Usable(tf)} \X {NoParams}
    ELSE ({tf \in TokenFiles : Usable(tf)} \X {NoParams})
         \cup ({tf \in TokenFiles : ~Usable(tf)} \X QueryParams)

\* a new session: no password given yet
InitInfographic ==
    /\ ParseIdle
    /\ missing = <<>>
    /\ AppIdle
    /\ ZipIdle
    /\ CliIdle
    /\ slide_link = <<>>
    /\ environ \in Environs
    /\ \E c \in StartsOf(environ) :
          /\ token_file = c[1]
          /\ params = c[2]
    /\ session = EmptySession

NextInfographic ==
    \/ TypePassword
    \/ PasswordEntered
    \/ InfClickGenerate
    \/ InfAuthorize
    \/ CopyTemplate
    \/ MoveToFolder
    \/ ReplacePlaceholders
    \/ GrantPermission
    \/ FetchLink
    \/ InfClickDownload
    \/ InfDownloadAuthorize
    \/ InfExport
    \/ EndRun

SpecInfographic == InitInfographic /\ [][NextInfographic]_vars

(* ---------------------------------------------------------------------- *)
(* Vocabulary of the parser properties: what a pasted line says,          *)
(* read off its characters without the regex or the normalization         *)
(* ---------------------------------------------------------------------- *)
CatalogKeys == {TEMPLATE_PLACEHOLDERS[i] : i \in 1..Len(TEMPLATE_PLACEHOLDERS)}

InnerOf(k) == SubSeq(k, 3, Len(k) - 2)

\* s begins with >= 1 "{", optional whitespace, inner, optional whitespace,
\* >= 1 "}" : where the token ends (0 when s does not begin so)
TokenEnd(s, inner) ==
    LET o == RunIn(s, 1, {"{"})
        a == RunIn(s, o + 1, WS)
        n == Len(inner)
        b == RunIn(s, o + a + n + 1, WS)
        c == RunIn(s, o + a + n + b + 1, {"}"})
    IN  IF /\ o >= 1
           /\ o + a + n <= Len(s)
           /\ SubSeq(s, o + a + 1, o + a + n) = inner
           /\ c >= 1
        THEN o + a + n + b + c
        ELSE 0

\* the line starts with the token of catalog key k
Carries(line, k) == TokenEnd(strip(line), InnerOf(k)) > 0

\* the trimmed text that follows the token on its line
InlineOf(line, k) ==
    LET s == strip(line)
    IN  strip(SubSeq(s, TokenEnd(s, InnerOf(k)) + 1, Len(s)))

\* the rest of the line after the token, untrimmed
TailOf(line, k) ==
    LET s == strip(line)
    IN  SubSeq(s, TokenEnd(s, InnerOf(k)) + 1, Len(s))

TextLines == splitlines(text)

CarryingLines(k) == {i \in 1..Len(TextLines) : Carries(TextLines[i], k)}

\* the trimmed first non-blank line after line i, "" when there is none
FollowingText(i) ==
    LET J == {j \in (i + 1)..Len(TextLines) : \E p \in 1..Len(TextLines[j]) : TextLines[j][p] \notin WS}
    IN  IF J = {} THEN <<>> ELSE strip(TextLines[CHOOSE j \in J : \A j2 \in J : j <= j2])

\* the value line i gives key k: its inline text, else the following text
ResolvedValue(i, k) ==
    IF InlineOf(TextLines[i], k) # <<>> THEN InlineOf(TextLines[i], k) ELSE FollowingText(i)

(* ---------------------------------------------------------------------- *)
(* Properties of parse_user_content                                       *)
(* ---------------------------------------------------------------------- *)
\* every catalog key has a line with its token and non-empty inline text
AllKeysInline ==
    \A k \in CatalogKeys : \E i \in CarryingLines(k) : InlineOf(TextLines[i], k) # <<>>

\* C2 as stated: with every key given inline, nothing is missing and each key
\* maps to the inline text of a line that carries it with inline text,
\* whatever else the text holds.
C2_AsStated ==
    (ppc = "done" /\ AllKeysInline) =>
        /\ missing = <<>>
        /\ \A k \in CatalogKeys :
              /\ DictHas(mapping, k)
              /\ \E i \in CarryingLines(k) :
                    /\ InlineOf(TextLines[i], k) # <<>>
                    /\ DictGet(mapping, k) = InlineOf(TextLines[i], k)

\* C2 amended: with every key given inline, nothing is missing, and each key
\* whose last token line has inline text maps to exactly that trimmed text.
C2_RoundTrip ==
    (ppc = "done" /\ AllKeysInline) =>
        /\ missing = <<>>
        /\ \A k \in CatalogKeys :
              /\ DictHas(mapping, k)
              /\ InlineOf(TextLines[Max(CarryingLines(k))], k) # <<>>
                    => DictGet(mapping, k) = InlineOf(TextLines[Max(CarryingLines(k))], k)

\* a finished parse of a text that gives every key inline, among other lines
C2_Witness ==
    /\ ppc = "done"
    /\ AllKeysInline
    /\ Len(TextLines) > Cardinality(CatalogKeys)
    /\ \A k \in CatalogKeys : DictGet(mapping, k) = InlineOf(TextLines[Max(CarryingLines(k))], k)

\* C3: missing is exactly the catalog keys whose token no line carries, each
\* once and in catalog order.
C3_MissingDetection ==
    ppc = "done" =>
        LET NotCarried(k) == CarryingLines(k) = {}
        IN  missing = SelectSeq(TEMPLATE_PLACEHOLDERS, NotCarried)

\* a text that supplies a strict, non-empty subset of the catalog: the later
\* catalog key is supplied first in the text, the first key not at all
C3_Witness ==
    /\ ppc = "done"
    /\ missing = <<TEMPLATE_PLACEHOLDERS[1]>>
    /\ DictHas(mapping, TEMPLATE_PLACEHOLDERS[2])

\* the text with line i replaced by ln
WithLine(i, ln) == JoinLines([j \in 1..Len(TextLines) |-> IF j = i THEN ln ELSE TextLines[j]])

\* C4: however the token of a catalog key is spelled on a line (>= 1 opening
\* and >= 1 closing braces, counts free, blanks around the inner text), the
\* parse gives that key the same entry, and the same missing list, as it does
\* with the line spelled {{X}}.
C4_BraceNormalization ==
    ppc = "done" =>
        \A k \in CatalogKeys : \A i \in CarryingLines(k) :
            LET canon == parse_user_content(WithLine(i, Spelled(2, 0, InnerOf(k), 0, 2, TailOf(TextLines[i], k))))
            IN  /\ missing = canon[2]
                /\ DictHas(mapping, k)
                /\ DictHas(canon[1], k)
                /\ DictGet(mapping, k) = DictGet(canon[1], k)

\* a finished parse of a text whose token line is not spelled {{X}}: one
\* opening brace, three closing braces, blanks around the inner text
C4_Witness ==
    /\ ppc = "done"
    /\ \E i \in 1..Len(TextLines) :
          LET s == strip(TextLines[i])
          IN  /\ Carries(TextLines[i], Braced(Title))
              /\ RunIn(s, 1, {"{"}) = 1
              /\ RunIn(s, TokenEnd(s, Title) - 2, {"}"}) = 3
    /\ DictHas(mapping, Braced(Title))
    /\ DictGet(mapping, Braced(Title)) = ValA

\* C5: right after a token line without inline text is processed, its key
\* holds the trimmed first non-blank line that follows (blank lines skipped),
\* or "" when no non-blank line follows.
C5_NextLineFallback ==
    (ppc = "loop" /\ idx >= 1) =>
        \A k \in CatalogKeys :
            (Carries(TextLines[idx], k) /\ InlineOf(TextLines[idx], k) = <<>>) =>
                /\ DictHas(mapping, k)
                /\ DictGet(mapping, k) = FollowingText(idx)

\* a token line without inline text, then a blank line, then a non-blank line
\* whose trimmed content the key now holds
C5_Witness ==
    /\ ppc = "loop"
    /\ idx = 1
    /\ Len(TextLines) = 3
    /\ Carries(TextLines[1], Braced(Lesson1Title))
    /\ InlineOf(TextLines[1], Braced(Lesson1Title)) = <<>>
    /\ strip(TextLines[2]) = <<>>
    /\ strip(TextLines[3]) # <<>>
    /\ DictGet(mapping, Braced(Lesson1Title)) = strip(TextLines[3])

\* C6: a key that several lines carry ends with the value resolved for the
\* last of them (inline text, else the following text).
C6_LastWriteWins ==
    ppc = "done" =>
        \A k \in CatalogKeys :
            CarryingLines(k) # {} =>
                /\ DictHas(mapping, k)
                /\ DictGet(mapping, k) = ResolvedValue(Max(CarryingLines(k)), k)

\* a key carried by two lines that resolve to different values
C6_Witness ==
    /\ ppc = "done"
    /\ \E k \in CatalogKeys : \E i, j \in CarryingLines(k) :
          /\ i < j
          /\ ResolvedValue(i, k) # ResolvedValue(j, k)
          /\ DictGet(mapping, k) = ResolvedValue(j, k)

\* C7: a key is in the mapping and not in missing as soon as a line carries
\* its token, even when the value resolved is ""; a key is in missing only
\* when no line carries its token.
C7_MissingVersusEmpty ==
    ppc = "done" =>
        \A k \in CatalogKeys :
            /\ CarryingLines(k) # {} => (DictHas(mapping, k) /\ ~\E n \in 1..Len(missing) : missing[n] = k)
            /\ (\E n \in 1..Len(missing) : missing[n] = k) => (CarryingLines(k) = {} /\ ~DictHas(mapping, k))

\* a result that passes the gate (nothing missing) with an empty value
C7_Witness ==
    /\ ppc = "done"
    /\ missing = <<>>
    /\ \E k \in CatalogKeys : DictHas(mapping, k) /\ DictGet(mapping, k) = <<>>

\* C8: until it returns the parse always has a step to take (the next line,
\* or the return once the lines are used up), and every entry of the mapping
\* comes from a line that carries the token of a catalog key: a line without
\* a token, with a token of another case or with an unknown token adds none.
C8_IgnoresOtherLines ==
    /\ ppc = "done" \/ (ppc = "loop" /\ idx <= Len(TextLines))
    /\ \A n \in 1..Len(mapping) :
          /\ mapping[n][1] \in CatalogKeys
          /\ \E i \in 1..idx : Carries(TextLines[i], mapping[n][1])

\* a finished parse that went over a token line of the wrong case and a prose
\* line, and holds no entry
C8_Witness ==
    /\ ppc = "done"
    /\ mapping = <<>>
    /\ \E i, j \in 1..Len(TextLines) :
          /\ pattern_match(strip(TextLines[i])).matched
          /\ ~pattern_match(strip(TextLines[j])).matched
          /\ strip(TextLines[j]) # <<>>

(* ---------------------------------------------------------------------- *)
(* Properties of the Generate Slide Deck handler                          *)
(* ---------------------------------------------------------------------- *)
CallsOf(op) == {i \in 1..Len(calls) : calls[i].op = op}

\* C1: a run whose parse left keys missing is over with nothing invoked (no
\* credential step, copy, relocation, substitution or publish) and with the
\* missing keys reported in catalog order; and every substitution invoked
\* carries one request per catalog key.
C1_GateAborts ==
    /\ missing # <<>> =>
          /\ pc = "done"
          /\ calls = <<>>
          /\ shown = <<ErrorMissing(missing)>>
          /\ LET NotParsed(k) == k \notin DictKeys(placeholder_map)
             IN  missing = SelectSeq(TEMPLATE_PLACEHOLDERS, NotParsed)
    /\ \A i \in CallsOf("batchUpdate") :
          /\ missing = <<>>
          /\ {calls[i].arg[n].replaceAllText.containsText.text : n \in 1..Len(calls[i].arg)} = CatalogKeys

\* a stopped run that parsed the first catalog key and misses the second
C1_Witness ==
    /\ pc = "done"
    /\ DictHas(placeholder_map, TEMPLATE_PLACEHOLDERS[1])
    /\ missing = <<TEMPLATE_PLACEHOLDERS[2]>>
    /\ shown = <<ErrorMissing(missing)>>
    /\ calls = <<>>

\* C9: when files.copy succeeded and files.update failed, the copy's ID is
\* what copy_template_presentation returned, a warning was shown and no error,
\* the handler stands at the substitution, and every later call of the run
\* (substitution, permission grant, link fetch: no undoing of the copy) is on
\* that same document, which is the one a successful run records.
C9_MoveFailureNonFatal ==
    \A i \in CallsOf("files.update") :
        ~Ok(calls[i].status) =>
            /\ i > 1
            /\ calls[i - 1].op = "files.copy"
            /\ Ok(calls[i - 1].status)
            /\ calls[i - 1].doc = calls[i].doc
            /\ new_id = calls[i].doc
            /\ \E n \in 1..Len(shown) : shown[n] = WarningMove
            /\ i = Len(calls) => (pc = "replace" /\ \A n \in 1..Len(shown) : shown[n] # ErrorException)
            /\ i < Len(calls) => (calls[i + 1].op = "batchUpdate" /\ calls[i + 1].arg = replace_requests(placeholder_map))
            /\ \A j \in (i + 1)..Len(calls) :
                  /\ calls[j].doc = calls[i].doc
                  /\ calls[j].op \in {"batchUpdate", "permissions.create", "files.get"}
            /\ (\E n \in 1..Len(shown) : shown[n] = Success) => session.deck_id = calls[i].doc

\* a run whose relocation failed and which went on to a substituted and
\* published deck, recorded in the session
C9_Witness ==
    /\ pc = "done"
    /\ \E i \in CallsOf("files.update") : ~Ok(calls[i].status)
    /\ \E i \in CallsOf("batchUpdate") : Ok(calls[i].status) /\ calls[i].doc = new_id
    /\ \E i \in CallsOf("files.get") : Ok(calls[i].status) /\ calls[i].doc = new_id
    /\ shown = <<WarningMove, Success>>
    /\ session.deck_id = new_id

(* ---------------------------------------------------------------------- *)
(* Vocabulary of the export properties                                    *)
(* ---------------------------------------------------------------------- *)
\* the positions in the slide's request log of image downloads at a size
DownloadsAt(sz) ==
    {i \in 1..Len(slide_calls) : slide_calls[i].op = "requests.get" /\ slide_calls[i].size = sz}

\* the positions in the slide's request log of any request at a size
RequestsAt(sz) == {i \in 1..Len(slide_calls) : slide_calls[i].size = sz}

SizeNames == {SIZES[n] : n \in 1..Len(SIZES)}

\* C10: thumbnail retry without fallback. In the requests made for a slide,
\* each size sees at most 3 image downloads; a download that is not the first
\* at its size directly follows a download at that size which was answered
\* with an HTTP status >= 500, and is the next attempt; a download answered
\* with 200 is the last request made for the slide (no descriptor and no image
\* at a smaller size follows), and the slide's ZIP entry is named after the
\* slide and holds the bytes of exactly that attempt at that size. A finished
\* export stores the entries written.
C10_RetryWithoutFallback ==
    /\ \A sz \in SizeNames : Cardinality(DownloadsAt(sz)) <= 3
    /\ \A i \in 1..Len(slide_calls) :
          LET c == slide_calls[i]
          IN  c.op = "requests.get" =>
                 /\ c.attempt \in 0..2
                 /\ (\E j \in DownloadsAt(c.size) : j < i) =>
                        /\ slide_calls[i - 1].op = "requests.get"
                        /\ slide_calls[i - 1].size = c.size
                        /\ slide_calls[i - 1].status >= 500
                        /\ slide_calls[i - 1].attempt = c.attempt - 1
                 /\ c.attempt > 0 => (\E j \in DownloadsAt(c.size) : j < i)
                 /\ c.status = 200 =>
                        /\ i = Len(slide_calls)
                        /\ Len(zf) = c.slide
                        /\ zf[c.slide].name = SlideName(c.slide)
                        /\ zf[c.slide].content = [slide |-> c.slide, size |-> c.size, attempt |-> c.attempt]
    /\ session.zip_ready /\ pc = "done" => session.zip_data = zf

\* the image of the first slide at LARGE answered 503, 503, then 200: the
\* third attempt is archived and nothing was requested at MEDIUM
C10_Witness ==
    /\ Len(slide_calls) = 4
    /\ slide_calls[1].op = "getThumbnail"
    /\ \A i \in 2..4 : slide_calls[i].op = "requests.get" /\ slide_calls[i].size = "LARGE"
    /\ slide_calls[2].status = 503
    /\ slide_calls[3].status = 503
    /\ slide_calls[4].status = 200
    /\ RequestsAt("MEDIUM") = {}
    /\ zf = <<[name |-> <<"s", "l", "i", "d", "e", "_", "0", "1", ".", "p", "n", "g">>,
               content |-> [slide |-> 1, size |-> "LARGE", attempt |-> 2]]>>

\* an image download answered with an HTTP error status: status 0 stands for
\* a failure that carries no HTTP response
HttpFailed(c) == c.op = "requests.get" /\ c.status # 0 /\ c.status # 200

\* C11, as stated: an image download that fails with a client-side status
\* (< 500), or with a status >= 500 on the third attempt, raises out of the
\* export at once: it is the last request made for the slide (no thumbnail
\* descriptor and no image at a smaller size follows) and the export ends
\* with the error.
C11_RaisesImmediately ==
    \A i \in 1..Len(slide_calls) :
        LET c == slide_calls[i]
        IN  HttpFailed(c) /\ (c.status < 500 \/ c.attempt = Attempts - 1) =>
                /\ i = Len(slide_calls)
                /\ pc = "done"
                /\ \E n \in 1..Len(shown) : shown[n] = ErrorImages

\* a request of the slide's log that ended its size: a failed descriptor
\* request, or a failed image download after which no further attempt is made
EndsSize(c) ==
    \/ c.op = "getThumbnail" /\ c.status # 200
    \/ /\ c.op = "requests.get"
       /\ c.status # 200
       /\ ~(c.status >= 500 /\ c.attempt < Attempts - 1)

\* every size failed for the slide being exported
AllSizesFailed ==
    /\ slide_calls # <<>>
    /\ slide_calls[Len(slide_calls)].size = "SMALL"
    /\ EndsSize(slide_calls[Len(slide_calls)])

\* C12: all-or-nothing export. When LARGE, MEDIUM and SMALL have all failed
\* for a slide, the export has ended with the error message and the session
\* holds no archive (zip_ready unset, no zip_data), whatever was already
\* written for earlier slides; and an archive the session does hold at the
\* end of an export has an entry for every slide of the deck.
C12_AllOrNothing ==
    /\ AllSizesFailed =>
          /\ pc = "done"
          /\ \E n \in 1..Len(shown) : shown[n] = ErrorImages
          /\ ~session.zip_ready
          /\ session.zip_data = <<>>
    /\ pc = "done" /\ session.zip_ready => Len(session.zip_data) = slide_ids

\* the first slide was archived, then every size failed for the second
C12_Witness ==
    /\ AllSizesFailed
    /\ slide_idx = 2
    /\ Len(zf) = 1
    /\ pc = "done"
    /\ ~session.zip_ready

(* ---------------------------------------------------------------------- *)
(* Vocabulary of the deck-generation properties                           *)
(* ---------------------------------------------------------------------- *)
\* the run's log holds a successful permission grant on document d
Granted(d) ==
    \E i \in CallsOf("permissions.create") : Ok(calls[i].status) /\ calls[i].doc = d

\* the lines of the command-line output that report a share link
LinkLines == {n \in 1..Len(out) : out[n].what = "Deck ready"}

\* the run has shown the success message of the Streamlit handler
ShownSuccess == \E n \in 1..Len(shown) : shown[n] = Success

\* what C13 says of one state of a run
PublishOrder ==
    /\ Cardinality(CallsOf("permissions.create")) <= 1
    /\ Cardinality(CallsOf("files.get")) <= 1
    /\ \A i \in CallsOf("files.get") :
          /\ i > 1
          /\ calls[i - 1].op = "permissions.create"
          /\ Ok(calls[i - 1].status)
          /\ calls[i - 1].doc = calls[i].doc
    /\ \A i \in CallsOf("permissions.create") :
          ~Ok(calls[i].status) =>
              /\ i = Len(calls)
              /\ CallsOf("files.get") = {}
              /\ ~ShownSuccess
              /\ LinkLines = {}
    /\ ShownSuccess => Granted(new_id) /\ session.share_link = new_id
    /\ \A n \in LinkLines : Granted(out[n].doc)

\* C13: publish safety. In every run of a deck generator the permission grant
\* and the view-URL fetch are each made at most once, the fetch directly after
\* a successful grant on the same document; after a failed grant nothing more
\* is invoked, no fetch is made, no success and no link is reported; a link is
\* printed or shown only for a document whose grant succeeded, and the
\* session's share link changes only to such a document.
C13_PublishSafety ==
    [][ /\ PublishOrder'
        /\ session'.share_link # session.share_link =>
              /\ session'.share_link = new_id'
              /\ Granted(new_id)'
      ]_vars

\* a Streamlit run whose permission grant failed
C13_Witness ==
    /\ script = "app"
    /\ pc = "done"
    /\ \E i \in CallsOf("permissions.create") : ~Ok(calls[i].status)
    /\ shown # <<>>
    /\ shown[Len(shown)] = ErrorException

\* what C14 says of one state of a Streamlit run
SubstitutionOnce ==
    /\ Cardinality(CallsOf("batchUpdate")) <= 1
    /\ (pc \in {"grant", "fetch"} \/ ShownSuccess) => Cardinality(CallsOf("batchUpdate")) = 1
    /\ \A i \in CallsOf("batchUpdate") :
          /\ calls[i].doc # NoDoc
          /\ calls[i].doc = new_id
          /\ \E j \in CallsOf("files.copy") :
                j < i /\ Ok(calls[j].status) /\ calls[j].doc = calls[i].doc
          /\ ~Ok(calls[i].status) =>
                /\ i = Len(calls)
                /\ pc = "done"
                /\ CallsOf("permissions.create") = {}
                /\ CallsOf("files.get") = {}
                /\ ~ShownSuccess
                /\ shown[Len(shown)] = ErrorException

\* C14: substitution failure stops the run. A Streamlit run invokes
\* replace_placeholders at most once, exactly once if it gets to publishing,
\* and only on the document a successful copy returned; when the substitution
\* fails it is the last call of the run: no retry, no permission grant, no
\* link fetch, the error shown and no success; and the step that fails leaves
\* the session (its share link included) as it was.
C14_SubstitutionFailureStops ==
    [][ /\ SubstitutionOnce'
        /\ (\E i \in CallsOf("batchUpdate")' : ~Ok(calls'[i].status)) => session' = session
      ]_vars

\* a run whose copy succeeded and whose substitution failed
C14_Witness ==
    /\ pc = "done"
    /\ \E i \in CallsOf("batchUpdate") : ~Ok(calls[i].status) /\ i = Len(calls)
    /\ \E j \in CallsOf("files.copy") : Ok(calls[j].status)
    /\ session.share_link = NoDoc

\* the request list covers the mapping: one replaceAllText instruction per
\* key, case-sensitive, with the key's value, and nothing else
CoversMapping(requests, pm) ==
    /\ Len(requests) = Len(pm)
    /\ \A n \in 1..Len(requests) :
          /\ DOMAIN requests[n] = {"replaceAllText"}
          /\ requests[n].replaceAllText.containsText.matchCase
          /\ DictHas(pm, requests[n].replaceAllText.containsText.text)
    /\ \A k \in DictKeys(pm) :
          \E n \in 1..Len(requests) :
              /\ requests[n].replaceAllText.containsText.text = k
              /\ requests[n].replaceAllText.replaceText = DictGet(pm, k)
              /\ \A m \in 1..Len(requests) :
                    requests[m].replaceAllText.containsText.text = k => m = n

\* C15: single batch substitution. The step that invokes replace_placeholders
\* adds exactly one call to the run, a batchUpdate on the copied document,
\* whose request list holds one case-sensitive replaceAllText instruction per
\* key of the mapping, with that key's value, and no other instruction; no
\* other step issues a batchUpdate.
C15_SingleBatch ==
    [][ /\ pc = "replace" =>
              /\ Len(calls') = Len(calls) + 1
              /\ calls'[Len(calls')].op = "batchUpdate"
              /\ calls'[Len(calls')].doc = new_id
              /\ CoversMapping(calls'[Len(calls')].arg, placeholder_map)
        /\ pc # "replace" => CallsOf("batchUpdate")' \subseteq CallsOf("batchUpdate")
      ]_vars

\* a substitution was invoked with a mapping that holds an empty value
C15_Witness ==
    /\ \E i \in CallsOf("batchUpdate") :
          /\ Len(calls[i].arg) = Len(TEMPLATE_PLACEHOLDERS)
          /\ \E n \in 1..Len(calls[i].arg) : calls[i].arg[n].replaceAllText.replaceText = <<>>
          /\ \E n \in 1..Len(calls[i].arg) : calls[i].arg[n].replaceAllText.replaceText # <<>>
    /\ \E k \in DictKeys(placeholder_map) : DictGet(placeholder_map, k) = <<>>

\* slide_NN.png for a position below 100
TwoDigitName(i) ==
    <<"s", "l", "i", "d", "e", "_", Digits[(i \div 10) + 1], Digits[(i % 10) + 1],
      ".", "p", "n", "g">>

\* the entries are those of slides 1..Len(entries), in order, one each
OnePerSlide(entries) ==
    \A i \in 1..Len(entries) :
        /\ entries[i].name = TwoDigitName(i)
        /\ entries[i].content.slide = i
        /\ \A j \in 1..Len(entries) : entries[j].name = entries[i].name => j = i

\* C16: archive contents. While the export runs the ZIP holds one entry for
\* each slide done, in document order and named slide_NN.png after the
\* slide's 1-based position, never two for a slide; the archive a finished
\* export stores is that ZIP and has exactly as many entries as the deck has
\* slides, whatever retries and size fallbacks occurred.
C16_ArchiveContents ==
    /\ OnePerSlide(zf)
    /\ pc \in {"thumb", "image"} => Len(zf) = slide_idx - 1
    /\ session.zip_ready => OnePerSlide(session.zip_data)
    /\ pc = "done" /\ session.zip_ready =>
          /\ session.zip_data = zf
          /\ Len(session.zip_data) = slide_ids

\* an archive of two slides was stored, the first fetched at SMALL after two
\* fallbacks, the second on the third attempt
C16_Witness ==
    /\ pc = "done"
    /\ session.zip_ready
    /\ Len(session.zip_data) = 2
    /\ slide_ids = 2
    /\ session.zip_data[1].content.size = "SMALL"
    /\ session.zip_data[2].content.attempt = 2

\* the place of a size in the order the claim states
Rank(sz) == CASE sz = "LARGE" -> 1 [] sz = "MEDIUM" -> 2 [] sz = "SMALL" -> 3

\* a request that failed with an exception other than an HTTP status error of
\* the download: a descriptor request that failed, or a download that got no
\* response
OtherException(c) ==
    \/ c.op = "getThumbnail" /\ c.status # 200
    \/ c.op = "requests.get" /\ c.status = 0

\* C17: size fallback order. The requests made for a slide start with the
\* LARGE descriptor and never go back to a larger size; a size is entered by
\* its descriptor request, directly after a failed request at the size just
\* above it. A descriptor request that fails, or a download that fails
\* without an HTTP status, at LARGE or MEDIUM is followed by the descriptor
\* request of the next smaller size and shows no error; at SMALL it is the
\* last request, the export ends with the error and stores no archive.
C17_FallbackOrder ==
    /\ slide_calls # <<>> =>
          /\ slide_calls[1].op = "getThumbnail"
          /\ slide_calls[1].size = "LARGE"
    /\ \A i \in 2..Len(slide_calls) :
          LET c == slide_calls[i]
              b == slide_calls[i - 1]
          IN  \/ c.size = b.size /\ c.op = "requests.get"
              \/ /\ Rank(c.size) = Rank(b.size) + 1
                 /\ c.op = "getThumbnail"
                 /\ b.status # 200
    /\ \A i \in 1..Len(slide_calls) :
          LET c == slide_calls[i]
          IN  OtherException(c) =>
                 IF c.size = "SMALL"
                 THEN /\ i = Len(slide_calls)
                      /\ pc = "done"
                      /\ \E n \in 1..Len(shown) : shown[n] = ErrorImages
                      /\ ~session.zip_ready
                 ELSE /\ i = Len(slide_calls) =>
                            /\ pc = "thumb"
                            /\ Rank(SIZES[size]) = Rank(c.size) + 1
                            /\ shown = <<>>
                      /\ i < Len(slide_calls) =>
                            /\ slide_calls[i + 1].op = "getThumbnail"
                            /\ Rank(slide_calls[i + 1].size) = Rank(c.size) + 1

\* the LARGE descriptor failed, the MEDIUM download got no response, the
\* SMALL descriptor failed: the export ended with the error
C17_Witness ==
    /\ Len(slide_calls) = 4
    /\ slide_calls[1] = [op |-> "getThumbnail", slide |-> 1, size |-> "LARGE", attempt |-> 0, status |-> 503]
    /\ slide_calls[2].op = "getThumbnail" /\ slide_calls[2].status = 200
    /\ slide_calls[3] = [op |-> "requests.get", slide |-> 1, size |-> "MEDIUM", attempt |-> 0, status |-> 0]
    /\ slide_calls[4].op = "getThumbnail" /\ slide_calls[4].size = "SMALL" /\ slide_calls[4].status # 200
    /\ pc = "done"
    /\ shown = <<ErrorImages>>

(* ---------------------------------------------------------------------- *)
(* Vocabulary of the retry properties of the command-line scripts         *)
(* ---------------------------------------------------------------------- *)
\* the number of batch submissions among the first i calls of the run
SubmissionsUpTo(i) == Cardinality({j \in CallsOf("batchUpdate") : j <= i})

\* the run ended in the error exit without publishing
EndedUnpublished ==
    /\ pc = "exited"
    /\ exit_code = 1
    /\ out[Len(out)] = Line("stderr", "ERROR", NoDoc)
    /\ CallsOf("permissions.create") = {}
    /\ CallsOf("files.get") = {}
    /\ LinkLines = {}

\* the submission at position i of the run's calls is submitted again
Resubmitted(i) ==
    IF i = Len(calls)
    THEN pc = "cli_replace" /\ attempt = SubmissionsUpTo(i) + 1
    ELSE /\ calls[i + 1].op = "batchUpdate"
         /\ calls[i + 1].doc = calls[i].doc
         /\ calls[i + 1].arg = calls[i].arg

\* C18, as stated: in replace_text_with_retry a batch submission that fails
\* with any status >= 500 is submitted again while fewer than 3 submissions
\* have been made.
C18_AsStated ==
    script = "54321" =>
        \A i \in CallsOf("batchUpdate") :
            calls[i].status >= 500 /\ SubmissionsUpTo(i) < 3 => Resubmitted(i)

\* C18, amended: in replace_text_with_retry a batch submission that fails
\* with status 500 or 503 is submitted again, after a pause that grows with
\* the attempt (2 s, then 4 s), up to 3 submissions in all; a submission is
\* only ever repeated after a 500 or a 503; a failure with any other status
\* (502 included), or of the third submission, is the last call of the run,
\* which ends with the error exit and without publishing.
C18_TransientRetry ==
    script = "54321" =>
        /\ Cardinality(CallsOf("batchUpdate")) <= 3
        /\ \A n \in 1..Len(slept) : slept[n] = 2 * n
        /\ Len(slept) = IF pc = "cli_replace"
                        THEN Cardinality(CallsOf("batchUpdate"))
                        ELSE Max({0} \cup {SubmissionsUpTo(i) - 1 : i \in CallsOf("batchUpdate")})
        /\ \A i \in CallsOf("batchUpdate") :
              /\ calls[i].status \in {500, 503} /\ SubmissionsUpTo(i) < 3 => Resubmitted(i)
              /\ (\E j \in CallsOf("batchUpdate") : j > i) =>
                     calls[i].status \in {500, 503} /\ Resubmitted(i)
              /\ /\ calls[i].status # 200
                 /\ (calls[i].status \notin {500, 503} \/ SubmissionsUpTo(i) = 3)
                 => i = Len(calls) /\ EndedUnpublished

\* 503, then 500, then 503 again: three submissions, two pauses, the error exit
C18_Witness ==
    /\ script = "54321"
    /\ Len(calls) >= 3
    /\ calls[Len(calls) - 2].op = "batchUpdate" /\ calls[Len(calls) - 2].status = 503
    /\ calls[Len(calls) - 1].op = "batchUpdate" /\ calls[Len(calls) - 1].status = 500
    /\ calls[Len(calls)].op = "batchUpdate" /\ calls[Len(calls)].status = 503
    /\ slept = <<2, 4>>
    /\ EndedUnpublished

\* the call failed with a client-side HTTP status
ClientError(c) == c.status >= 400 /\ c.status < 500

\* the run was ended by an error: the Streamlit handler showed the exception
\* and stopped, or the script printed it and exited with status 1
EndedInError ==
    IF script = "app"
    THEN pc = "done" /\ shown # <<>> /\ shown[Len(shown)] = ErrorException
    ELSE pc = "exited" /\ exit_code = 1 /\ out[Len(out)] = Line("stderr", "ERROR", NoDoc)

\* the call at position i ended the run: nothing was invoked after it
Propagated(i) == i = Len(calls) /\ EndedInError

C20_TokenRewritten ==
    \A i \in CallsOf("refresh") \cup CallsOf("consent") :
        Ok(calls[i].status) =>
            /\ i < Len(calls)
            /\ calls[i + 1].op = "write_token"
            /\ token_file.exists
            /\ ~token_file.expired

(* ---------------------------------------------------------------------- *)
(* Vocabulary of the credential properties                                *)
(* ---------------------------------------------------------------------- *)
\* the stored credential is present and valid
StoredValid(tf) == tf.exists /\ ~tf.expired

\* the stored credential is expired and comes with a refresh credential
Refreshable(tf) == tf.exists /\ tf.expired /\ tf.refresh_token

\* a step in which a deck generator calls get_credentials
CredentialStep == pc \in {"auth", "cli_auth"}

\* the credential steps that step has taken
StepOps == SubSeq(calls', Len(calls) + 1, Len(calls'))

\* the step took the interactive consent step
TookConsent == \E n \in 1..Len(StepOps) : StepOps[n].op = "consent"

\* the step made a refresh that gave a valid credential
RefreshedValid == \E n \in 1..Len(StepOps) : StepOps[n].op = "refresh" /\ Ok(StepOps[n].status)

\* get_credentials returned: the run went on to the copy
Returned == pc' \in {"copy", "cli_copy"}

Range(seq) == {seq[n] : n \in 1..Len(seq)}

\* no element occurs twice
NoRepeat(seq) == \A m, n \in 1..Len(seq) : seq[m] = seq[n] => m = n

\* C22: parse result partition. In every run of the Generate handler the
\* mapping and the missing list that parse_user_content returned split the
\* catalog: the mapping's keys are catalog keys, each once; missing holds
\* catalog keys, each once, none of them a key of the mapping; and every
\* catalog key is in one of the two. Every substitution request searches for
\* a catalog key.
C22_ParsePartition ==
    /\ pc # "idle" =>
          /\ DictKeys(placeholder_map) \subseteq CatalogKeys
          /\ NoRepeat([n \in 1..Len(placeholder_map) |-> placeholder_map[n][1]])
          /\ Range(missing) \subseteq CatalogKeys
          /\ NoRepeat(missing)
          /\ Range(missing) \cap DictKeys(placeholder_map) = {}
          /\ Range(missing) \cup DictKeys(placeholder_map) = CatalogKeys
    /\ \A i \in CallsOf("batchUpdate") :
          \A n \in 1..Len(calls[i].arg) :
              calls[i].arg[n].replaceAllText.containsText.text \in CatalogKeys

\* a parse that found one catalog key and missed the other
C22_Witness ==
    /\ pc = "done"
    /\ Len(placeholder_map) = 1
    /\ Len(missing) = 1
    /\ missing[1] # placeholder_map[1][1]

\* the index of the first non-blank line after line i, 0 when there is none
FollowingLine(i) ==
    LET J == {j \in (i + 1)..Len(TextLines) : strip(TextLines[j]) # <<>>}
    IN  IF J = {} THEN 0 ELSE CHOOSE j \in J : \A j2 \in J : j <= j2

\* line i carries key k with no inline text and the next non-blank line
\* carries key k2
FallsOnToken(i, k, k2) ==
    /\ Carries(TextLines[i], k)
    /\ InlineOf(TextLines[i], k) = <<>>
    /\ FollowingLine(i) # 0
    /\ Carries(TextLines[FollowingLine(i)], k2)

\* C23: when a recognized token line has no inline text and the next
\* non-blank line is itself a token line, the first key gets that whole
\* line, trimmed, token included; the same line is parsed in its turn and
\* assigns its own key; so the final mapping can hold a value that starts
\* with a placeholder token.
C23_FallbackKeepsTokenLine ==
    /\ (ppc = "loop" /\ idx >= 1) =>
         \A k \in CatalogKeys : \A k2 \in CatalogKeys :
           /\ FallsOnToken(idx, k, k2) =>
                /\ DictHas(mapping, k)
                /\ DictGet(mapping, k) = strip(TextLines[FollowingLine(idx)])
                /\ Carries(DictGet(mapping, k), k2)
           /\ \A i \in 1..(idx - 1) :
                (FollowingLine(i) = idx /\ FallsOnToken(i, k, k2)) =>
                    /\ DictHas(mapping, k2)
                    /\ DictGet(mapping, k2) = ResolvedValue(idx, k2)
    /\ ppc = "done" =>
         \A k \in CatalogKeys : \A k2 \in CatalogKeys :
           (CarryingLines(k) # {} /\ FallsOnToken(Max(CarryingLines(k)), k, k2)) =>
               /\ DictGet(mapping, k) = strip(TextLines[FollowingLine(Max(CarryingLines(k)))])
               /\ DictHas(mapping, k2)

\* {{Title}} followed by {{Lesson 1 Title}} b c has been parsed: Title
\* holds the whole second line and Lesson 1 Title holds "b c"
C23_Witness ==
    /\ ppc = "done"
    /\ Len(TextLines) >= 2
    /\ FallsOnToken(1, Braced(Title), Braced(Lesson1Title))
    /\ Max(CarryingLines(Braced(Title))) = 1
    /\ DictGet(mapping, Braced(Title)) = Braced(Lesson1Title) \o <<" ">> \o ValBC
    /\ DictGet(mapping, Braced(Lesson1Title)) = ValBC

\* whitespace-only lines
BlankLines == {<<>>, <<" ", "\t">>}

\* whitespace put in front of a line and behind it
Pads == {<<l, <<>>>> : l \in {<<" ">>, <<"\t">>}} \cup {<<<<>>, r>> : r \in {<<" ">>, <<"\t">>}}

\* the lines ls with line b put in after the first p lines
InsertLine(ls, p, b) == SubSeq(ls, 1, p) \o <<b>> \o SubSeq(ls, p + 1, Len(ls))

\* the lines ls without line p
RemoveLine(ls, p) == SubSeq(ls, 1, p - 1) \o SubSeq(ls, p + 1, Len(ls))

\* the lines ls with line p wrapped in the whitespace l and r
PadLine(ls, p, l, r) == [ls EXCEPT ![p] = l \o ls[p] \o r]

\* the texts that differ from the pasted one by one whitespace-only line or
\* by whitespace around one line
WhitespaceVariants ==
    LET ls == TextLines
    IN  {JoinLines(InsertLine(ls, p, b)) : p \in 0..Len(ls), b \in BlankLines}
        \cup {JoinLines(RemoveLine(ls, p)) : p \in {q \in 1..Len(ls) : strip(ls[q]) = <<>>}}
        \cup {JoinLines(PadLine(ls, p, w[1], w[2])) : p \in 1..Len(ls), w \in Pads}

\* C24: inserting or removing a whitespace-only line anywhere, or putting
\* whitespace in front of or behind any line, gives the same (mapping,
\* missing) result of parse_user_content.
C24_WhitespaceInsensitive ==
    ppc = "done" =>
        \A t \in WhitespaceVariants : parse_user_content(t) = <<mapping, missing>>

\* a parsed text with a whitespace-only line, a token line that has
\* whitespace around it, and a key that was assigned
C24_Witness ==
    /\ ppc = "done"
    /\ mapping # <<>>
    /\ \E i \in 1..Len(TextLines) : TextLines[i] # <<>> /\ strip(TextLines[i]) = <<>>
    /\ \E i \in 1..Len(TextLines) : \E k \in CatalogKeys :
           /\ Carries(TextLines[i], k)
           /\ TextLines[i] # strip(TextLines[i])
    /\ Cardinality(WhitespaceVariants) > 1

\* the four session entries that record a deck
DeckRecord(ss) == <<ss.deck_id, ss.share_link, ss.deck_title, ss.title_placeholder>>

\* the run's log holds, in this order, a successful copy that returned d, a
\* successful substitution on d and a successful grant and link fetch on d
CopiedSubstitutedPublished(d) ==
    \E c \in CallsOf("files.copy") : \E b \in CallsOf("batchUpdate") :
    \E g \in CallsOf("permissions.create") : \E f \in CallsOf("files.get") :
        /\ c < b /\ b < g /\ g < f
        /\ \A i \in {c, b, g, f} : Ok(calls[i].status) /\ calls[i].doc = d

\* the step ended the run on the missing keys or on an exception
EndsInFailure ==
    /\ pc # "done"
    /\ pc' = "done"
    /\ shown' # <<>>
    /\ shown'[Len(shown')].kind = "error"

\* C25: the four session entries deck_id, share_link, deck_title and
\* title_placeholder are written in one step, with the values of the run,
\* and only when the run's copy, substitution and publish of that deck have
\* all succeeded; a step that ends the run in failure leaves all four as
\* they were; deck_id is present only together with the other entries of
\* the same deck.
C25_SessionRecord ==
    [][ /\ DeckRecord(session') # DeckRecord(session) =>
              /\ pc = "fetch"
              /\ new_id # NoDoc
              /\ DeckRecord(session') =
                     <<new_id, new_id, deck_title, TitlePlaceholder(placeholder_map)>>
              /\ CopiedSubstitutedPublished(new_id)'
              /\ ShownSuccess'
        /\ EndsInFailure => DeckRecord(session') = DeckRecord(session)
        /\ session'.deck_id # NoDoc =>
              /\ session'.share_link = session'.deck_id
              /\ session'.deck_title # <<>>
      ]_vars

\* a deck is recorded in the session and a later run, which copied another
\* document, has ended in an error
C25_Witness ==
    /\ pc = "done"
    /\ session.deck_id # NoDoc
    /\ shown # <<>>
    /\ shown[Len(shown)] = ErrorException
    /\ new_id # NoDoc
    /\ new_id # session.deck_id

\* the two session entries that hold the archive
ArchiveCache(ss) == <<ss.zip_ready, ss.zip_data>>

\* the script run is inside the Download Images handler
Exporting(p) == p \in {"dl_auth", "meta", "thumb", "image"}

\* C26: once zip_ready and zip_data are set they are never cleared or
\* overwritten, whatever is generated afterwards, and no export is started
\* any more; they are set in one step, by an export of the deck the session
\* holds at that moment, and that step leaves the deck entries alone.
C26_ArchiveNeverInvalidated ==
    [][ /\ session.zip_ready =>
              /\ ArchiveCache(session') = ArchiveCache(session)
              /\ ~Exporting(pc')
        /\ ArchiveCache(session') # ArchiveCache(session) =>
              /\ Exporting(pc)
              /\ session'.zip_ready
              /\ DeckRecord(session') = DeckRecord(session)
              /\ \E i \in CallsOf("presentations.get")' :
                     Ok(calls'[i].status) /\ calls'[i].doc = session.deck_id
      ]_vars

\* an archive with an image is kept in the session and a run that came
\* after the export has generated a deck and recorded it
C26_Witness ==
    /\ session.zip_ready
    /\ session.zip_data # <<>>
    /\ pc = "done"
    /\ ShownSuccess
    /\ session.deck_id = new_id
    /\ new_id # NoDoc

(* ---------------------------------------------------------------------- *)
(* Properties of the images page                                          *)
(* ---------------------------------------------------------------------- *)
\* the text holds "/d/" followed by a character of an ID
HoldsDId(s) ==
    \E i \in 1..(Len(s) - 3) :
        SubSeq(s, i, i + 2) = <<"/", "d", "/">> /\ s[i + 3] \in IdChars

\* the input is empty, or neither a slash-free text of at least 25
\* characters nor a URL that holds /d/<id>
RejectedInput(l) ==
    LET s == strip(l)
    IN  \/ s = <<>>
        \/ /\ ~(Len(s) >= 25 /\ "/" \notin Range(s))
           /\ ~HoldsDId(s)

\* the step ended the run of the page with its error message
PageFailed ==
    /\ pc # "done"
    /\ pc' = "done"
    /\ shown' # <<>>
    /\ shown'[Len(shown')] = ErrorPage

\* C27: on the images page, a click with a rejected input ends the run at
\* once with the error, no credential step and no remote call; a run that
\* ends with the error, at any step, leaves img_zip as it was; img_zip
\* changes only by a returned archive, and an archive once stored stays
\* offered for download.
C27_PageFailureKeepsArchive ==
    [][ /\ (pc = "idle" /\ pc' # "idle" /\ RejectedInput(slide_link')) =>
              /\ PageFailed
              /\ calls' = <<>>
              /\ token_file' = token_file
        /\ RejectedInput(slide_link') => (calls' = <<>> /\ token_file' = token_file)
        /\ PageFailed => session'.img_zip = session.img_zip
        /\ session'.img_zip # session.img_zip =>
              /\ pc = "pg_zip"
              /\ session'.img_zip.stored
              /\ shown' = <<>>
        /\ session.img_zip.stored => session'.img_zip.stored
      ]_vars

\* an archive with an image is stored and a later click, with an input that
\* is rejected, has ended in the error
C27_Witness ==
    /\ pc = "done"
    /\ session.img_zip.stored
    /\ session.img_zip.entries # <<>>
    /\ RejectedInput(slide_link)
    /\ shown = <<ErrorPage>>
    /\ calls = <<>>

(* ---------------------------------------------------------------------- *)
(* Termination of build_slide_images_zip                                  *)
(* ---------------------------------------------------------------------- *)
\* the requests of one kind made for the slide being exported
SlideCallsOf(op) == {i \in 1..Len(slide_calls) : slide_calls[i].op = op}

\* the export is inside the loop over the slides
InSlideLoop(p) == p \in {"thumb", "image"}

\* the most requests the export can still make: 12 for every slide to
\* come, 4 for every size to come, and what is left of the size tried
RequestsLeft(p, i, sz, att) ==
    (slide_ids - i) * 12 + (3 - sz) * 4 + (IF p = "thumb" THEN 4 ELSE 3 - att)

\* what C28 says of one state of an export
ExportBounds ==
    /\ Cardinality(SlideCallsOf("getThumbnail")) <= 3
    /\ Cardinality(SlideCallsOf("requests.get")) <= 9
    /\ \A sz \in 1..3 :
          Cardinality({i \in SlideCallsOf("requests.get") : slide_calls[i].size = SIZES[sz]}) <= 3
    /\ InSlideLoop(pc) =>
          /\ slide_idx \in 1..slide_ids
          /\ Len(zf) = slide_idx - 1
          /\ \A i \in 1..Len(slide_calls) :
                IF pc = "thumb" /\ size = 1
                THEN slide_calls[i].slide = slide_idx - 1
                ELSE slide_calls[i].slide = slide_idx
          /\ RequestsLeft(pc, slide_idx, size, attempt) >= 1
    /\ \A i \in 1..Len(zf) : zf[i].name = SlideName(i)

\* C28: bounded export. At most 3 descriptor requests and 9 downloads are
\* made for a slide, 3 downloads at most per size; every request of the
\* loop over the slides lowers the number of requests the export can still
\* make, which is never below zero, so the export ends; a pass of the
\* download loop archives the image, goes to the next attempt (the third
\* is the last), or leaves the loop by the failure; and the requests for
\* slide i + 1 start only when slides 1..i are in the archive.
C28_BoundedExport ==
    [][ /\ ExportBounds'
        /\ InSlideLoop(pc) =>
              /\ Len(slide_calls') >= 1
              /\ InSlideLoop(pc') =>
                    RequestsLeft(pc', slide_idx', size', attempt')
                        < RequestsLeft(pc, slide_idx, size, attempt)
              /\ ~InSlideLoop(pc') => pc' = "done"
        /\ pc = "image" =>
              LET c == slide_calls'[Len(slide_calls')]
              IN  \/ /\ c.status = 200
                     /\ zf' = Append(zf, [name |-> SlideName(slide_idx),
                                          content |-> Content(slide_idx, size, attempt)])
                  \/ /\ c.status # 200
                     /\ pc' = "image"
                     /\ attempt' = attempt + 1
                     /\ attempt' <= 2
                     /\ UNCHANGED <<zf, size, slide_idx>>
                  \/ /\ c.status # 200
                     /\ pc' # "image"
                     /\ zf' = zf
                     /\ \/ pc' = "thumb" /\ size' = size + 1 /\ slide_idx' = slide_idx
                        \/ pc' = "done" /\ shown'[Len(shown')] = ErrorImages
        /\ (InSlideLoop(pc) /\ InSlideLoop(pc') /\ slide_idx' # slide_idx) =>
              /\ slide_idx' = slide_idx + 1
              /\ Len(zf') = slide_idx
              /\ zf'[slide_idx].name = SlideName(slide_idx)
      ]_vars

\* the export of a deck of two slides is over, and the second slide took
\* every request there can be: three descriptors and nine downloads
C28_Witness ==
    /\ pc = "done"
    /\ session.zip_ready
    /\ slide_ids = 2
    /\ Len(zf) = 2
    /\ Cardinality(SlideCallsOf("getThumbnail")) = 3
    /\ Cardinality(SlideCallsOf("requests.get")) = 9

(* ---------------------------------------------------------------------- *)
(* Properties of generate_infographic.py                                  *)
(* ---------------------------------------------------------------------- *)
\* the script run is inside a button handler
InHandler(p) == p \notin {"idle", "password"}

\* C29: password gate. A step of a handler (parsing, credential, copy,
\* substitution, publish, export) is taken only in a session whose
\* password_correct is True, and nothing such a step can leave behind
\* changes otherwise; password_correct changes only in the callback, to
\* True exactly when the submitted password is the configured one, and the
\* stored password entry is deleted then and kept otherwise; once True,
\* password_correct stays True.
C29_PasswordGate ==
    [][ /\ (InHandler(pc) \/ InHandler(pc')) =>
              /\ session.password_correct = "True"
              /\ session'.password_correct = "True"
        /\ (\/ calls' # calls
            \/ placeholder_map' # placeholder_map
            \/ missing' # missing
            \/ token_file' # token_file
            \/ DeckRecord(session') # DeckRecord(session)
            \/ ArchiveCache(session') # ArchiveCache(session)
            \/ session'.oauth_state # session.oauth_state) =>
              session.password_correct = "True"
        /\ session'.password_correct # session.password_correct => pc = "password"
        /\ pc = "password" =>
              IF session.password = ConfiguredPassword
              THEN session'.password_correct = "True" /\ session'.password = Absent
              ELSE session'.password_correct = "False" /\ session'.password = session.password
        /\ session.password_correct = "True" => session'.password_correct = "True"
      ]_vars

\* the gate was passed, the password entry is gone, and a deck was generated
C29_Witness ==
    /\ session.password_correct = "True"
    /\ session.password = Absent
    /\ pc = "done"
    /\ ShownSuccess
    /\ session.deck_id = new_id
    /\ new_id # NoDoc

\* token.json holds no credential, or an expired one that cannot be refreshed
NoValidStored(tf) == ~tf.exists \/ (tf.expired /\ ~tf.refresh_token)

\* the step is get_credentials() of a handler, outside service-account mode
WebCredentialStep == pc \in {"inf_auth", "inf_dl_auth"} /\ environ.USE_SERVICE_ACCOUNT # "1"

\* the operations a credential step invokes
CredentialOps == {"refresh", "fetch_token", "write_token"}

\* the positions of the calls the step has added
AddedCalls == (Len(calls) + 1)..Len(calls')

\* C30: outside service-account mode, a credential step that finds no valid
\* stored credential (none, one that cannot be refreshed, or one whose
\* refresh fails) ends the run: nothing but credential operations was
\* invoked in it, and the deck entries and the archive of the session stay
\* as they were. token.json changes only in a run whose URL carries a code,
\* by the write that directly follows the successful exchange of that
\* code. A step that exchanges a code, successfully or not, leaves no
\* oauth_state in the session; oauth_state is set only by a run whose URL
\* carries no code, which ends there.
C30_NoWorkWithoutCredential ==
    [][ /\ (/\ WebCredentialStep
            /\ \/ NoValidStored(token_file)
               \/ \E i \in AddedCalls : calls'[i].op = "refresh" /\ ~Ok(calls'[i].status)) =>
              /\ pc' = "done"
              /\ \A i \in 1..Len(calls') : calls'[i].op \in CredentialOps
              /\ DeckRecord(session') = DeckRecord(session)
              /\ ArchiveCache(session') = ArchiveCache(session)
              /\ ~ShownSuccess'
        /\ token_file' # token_file =>
              /\ WebCredentialStep
              /\ params.code # ""
              /\ Len(calls') = Len(calls) + 2
              /\ calls'[Len(calls') - 1].op = "fetch_token"
              /\ Ok(calls'[Len(calls') - 1].status)
              /\ calls'[Len(calls')].op = "write_token"
              /\ token_file'.exists /\ ~token_file'.expired
              /\ pc' = "done"
        /\ (\E i \in AddedCalls : calls'[i].op = "fetch_token") =>
              /\ params.code # ""
              /\ session'.oauth_state = Absent
        /\ session'.oauth_state # session.oauth_state =>
              /\ WebCredentialStep
              /\ params.code = ""
              /\ session'.oauth_state = "state"
              /\ pc' = "done"
              /\ calls' = calls
      ]_vars

\* a run whose URL carried a code has exchanged it and written token.json,
\* and has ended without a deck
C30_Witness ==
    /\ pc = "done"
    /\ environ.USE_SERVICE_ACCOUNT # "1"
    /\ Len(calls) = 2
    /\ calls[1].op = "fetch_token"
    /\ calls[2].op = "write_token"
    /\ token_file.exists
    /\ params = NoParams
    /\ session.oauth_state = Absent
    /\ session.deck_id = NoDoc
    /\ shown = <<SuccessAuthorised>>
====
